---- MODULE Spec2Model ----
(***************************************************************************)
(* Helios server.                                                         *)
(*                                                                        *)
(* The live stats aggregator (StatsCache) of core/service/container.go,   *)
(* its readers, the HTTP read handlers that use it, and its Stop: the     *)
(* refresh goroutine (refreshLoop/refresh), one sampler goroutine per     *)
(* listed container, the goroutine that closes the result channel, one    *)
(* client that issues HTTP read requests and cache getter calls, and the  *)
(* owner that calls Stop.                                                 *)
(*                                                                        *)
(* One sampler call (getContainerStats with statsutil) on its own.        *)
(*                                                                        *)
(* The log demultiplexer (LogService.StreamLogs and GetLogs) and the      *)
(* WebSocket handler that drives it (handler/logs.go): the handler, the   *)
(* goroutine that reads the socket, the streaming goroutine, the client.  *)
(*                                                                        *)
(* The download endpoint and the ZIP archive builder                      *)
(* (LogHandler.DownloadLogs, LogService.CreateLogArchive).                *)
(*                                                                        *)
(* The health probe loop of cmd/main.go (startHealthChecker,              *)
(* checkContainer) and the records it hands to the repository.            *)
(*                                                                        *)
(* The mutating container operations of ContainerService (start, stop,    *)
(* restart, remove), their bulk forms with the bulk handlers, and the     *)
(* action records logAction hands to the journal.                         *)
(*                                                                        *)
(* The daemon is the environment: every daemon call returns a            *)
(* nondeterministic answer.                                               *)
(*                                                                        *)
(* float64 values are modelled by integers (divisions truncate).          *)
(* uint64 counters keep a width of CounterBits bits.                      *)
(***************************************************************************)
EXTENDS Integers, Sequences, FiniteSets, TLC

\* ------------------------------------------------------------------ bounds
NumIds == 3              \* container ids known to the daemon
MaxTicks == 2            \* refreshes the loop starts in one behaviour
MaxRunning == 2          \* containers the daemon runs at the same time
MaxHttpStatsCalls == 1   \* cap of the counter of daemon stats calls made for HTTP reads
CounterBits == 16        \* width of the unsigned counters
MaxFrames == 3           \* frames the daemon emits on one log stream
MaxHealthTicks == 2      \* ticks of the health checker in one behaviour
MaxBulkIds == 3          \* container ids in the list of a bulk request served alone
MaxJournalIds == 2       \* container ids of a bulk request served beside another request

Ids == 1..NumIds
UMod == 2^CounterBits

\* ------------------------------------------------------- daemon responses
\* Two raw stats responses of the daemon (container.StatsResponse): current and
\* previous cpu totals, number of per-cpu entries, memory usage and limit,
\* per-interface rx/tx, blkio entries.
RawSamples ==
  { [ cpuTotal |-> 200, preCpuTotal |-> 100, systemUsage |-> 2000, preSystemUsage |-> 1000,
      percpu |-> 2, usage |-> 512, limit |-> 1024,
      networks |-> << [rx |-> 3, tx |-> 1], [rx |-> 4, tx |-> 2] >>,
      blkio |-> << [op |-> "Read", value |-> 5], [op |-> "write", value |-> 6] >> ],
    [ cpuTotal |-> 300, preCpuTotal |-> 200, systemUsage |-> 3000, preSystemUsage |-> 2000,
      percpu |-> 4, usage |-> 100, limit |-> 400,
      networks |-> << [rx |-> 10, tx |-> 20] >>,
      blkio |-> << [op |-> "READ", value |-> 7], [op |-> "read", value |-> 1] >> ] }

USub(a, b) == (a - b + UMod) % UMod      \* uint64 subtraction
UAdd(a, b) == (a + b) % UMod             \* uint64 addition

\* statsutil.CalculateCPUPercent
CalculateCPUPercent(raw) ==
  LET cpuDelta == USub(raw.cpuTotal, raw.preCpuTotal)
      systemDelta == USub(raw.systemUsage, raw.preSystemUsage)
  IN IF systemDelta > 0 /\ cpuDelta > 0
       THEN (cpuDelta * raw.percpu * 100) \div systemDelta
       ELSE 0

RECURSIVE SumRx(_)
SumRx(nets) == IF nets = << >> THEN 0 ELSE UAdd(Head(nets).rx, SumRx(Tail(nets)))
RECURSIVE SumTx(_)
SumTx(nets) == IF nets = << >> THEN 0 ELSE UAdd(Head(nets).tx, SumTx(Tail(nets)))

\* statsutil.GetNetworkRx / GetNetworkTx
GetNetworkRx(raw) == SumRx(raw.networks)
GetNetworkTx(raw) == SumTx(raw.networks)

RECURSIVE SumOps(_, _)
SumOps(entries, ops) ==
  IF entries = << >> THEN 0
  ELSE LET e == Head(entries)
       IN IF e.op \in ops THEN UAdd(e.value, SumOps(Tail(entries), ops))
                          ELSE SumOps(Tail(entries), ops)

\* statsutil.GetBlockRead / GetBlockWrite
GetBlockRead(raw) == SumOps(raw.blkio, {"Read", "read"})
GetBlockWrite(raw) == SumOps(raw.blkio, {"Write", "write"})

\* float64(usage) / float64(limit) * 100.0: a division by zero gives NaN (0/0)
\* or +Inf (x/0), it does not panic.
FloatPercent(usage, limit) ==
  IF limit # 0 THEN [kind |-> "num", val |-> (usage * 100) \div limit]
  ELSE IF usage = 0 THEN [kind |-> "NaN", val |-> 0]
  ELSE [kind |-> "+Inf", val |-> 0]

\* ContainerService.getContainerStats, after a successful daemon call and decode
getContainerStats(raw) ==
  [ CPUPercent    |-> CalculateCPUPercent(raw),
    MemoryUsage   |-> raw.usage,
    MemoryLimit   |-> raw.limit,
    MemoryPercent |-> FloatPercent(raw.usage, raw.limit),
    NetworkRx     |-> GetNetworkRx(raw),
    NetworkTx     |-> GetNetworkTx(raw),
    BlockRead     |-> GetBlockRead(raw),
    BlockWrite    |-> GetBlockWrite(raw) ]

\* ------------------------------------------------------------------ values
\* &DashboardSummary{}
ZeroSummary ==
  [ TotalCPUPercent |-> 0, TotalMemoryUsage |-> 0, TotalMemoryLimit |-> 0,
    TotalMemoryPercent |-> 0, TotalNetworkRx |-> 0, TotalNetworkTx |-> 0,
    ContainerCount |-> 0 ]

\* a nil pointer (*DashboardSummary before the first publication, *ContainerStats
\* of an absent key or of a failed sampler)
Nil == [ isNil |-> TRUE ]

\* no value held
NoValue == [ kind |-> "none" ]

\* make(map[string]*ContainerStats)
EmptyMap == [ i \in {} |-> ZeroSummary ]

\* m[id] = v on a Go map
MapPut(m, id, v) == [ i \in (DOMAIN m) \cup {id} |-> IF i = id THEN v ELSE m[i] ]

\* a result sent on statsChan (statsResult); a failed sampler sends stats = nil
OkResult(id, st) == [ containerID |-> id, err |-> FALSE, stats |-> st ]
ErrResult(id) == [ containerID |-> id, err |-> TRUE, stats |-> Nil ]

VARIABLES
  containerStats,     \* StatsCache.containerStats
  dashboardSummary,   \* StatsCache.dashboardSummary
  mu,                 \* StatsCache.mu: [writer: BOOLEAN, readers: Nat]
  pc,                 \* position of the refresh goroutine
  tick,               \* number of refreshes started
  expired,            \* the 5 s deadline of the current refresh's ctx has passed
  containers,         \* ids returned by the last successful ContainerList of refresh
  listResult,         \* outcome of this refresh's ContainerList: "none" | "error" | "empty" | "some"
  sampler,            \* per id: "none" | "running" | "ok" | "failed" | "cancelled"
  statsChan,          \* buffered result channel
  chanClosed,         \* close(statsChan) has run
  newStats,           \* refresh's local map
  summary,            \* refresh's local summary
  mapGen,             \* tick whose refresh assigned containerStats (0: constructor)
  sumGen,             \* tick whose refresh assigned dashboardSummary (0: constructor)
  swaps,              \* tick of the last refresh that completed its publication
  replaced,           \* keys of the map that this refresh's publication replaced
  hpc,                \* position of the client: "idle" | "getter" | "rlocked" | "copied" | "stats"
  hop,                \* its request: "none" | "list" | "summary" | "one" | "get"
  hArg,               \* the running ids of its list request, or the id of its request
  hVal,               \* the value its getter copied under the read lock
  hGen,               \* tick of the refresh that assigned the field hVal was copied from
  kept,               \* results a caller keeps from its earlier getter calls
  httpStatsCalls,     \* daemon stats calls issued on behalf of HTTP reads
  ctxDone,            \* StatsCache.ctx is cancelled (its Done channel is closed)
  tickPending,        \* the ticker's channel holds a tick that refreshLoop has not received
  statsJSON,          \* the decoded stats response of the sampler call under study
  stats,              \* the ContainerStats that call returned
  logFrames,          \* the frames the daemon emitted on the log stream
  logStream,          \* the bytes of the daemon's log stream (reader of ContainerLogs)
  daemonEnds,         \* the daemon ends the stream after those bytes (else it stays open)
  wpc,                \* position of LogHandler.StreamLogs
  rdpc,               \* position of the handler's goroutine that reads the socket
  dpc,                \* position of the goroutine of LogService.StreamLogs
  rpos,               \* bytes that goroutine has consumed from the reader
  size,               \* payload size decoded from the last header
  buf,                \* the payload read and not yet handed to the writer (buf[:n])
  sink,               \* the chunks written to the writer, in order
  errChan,            \* errChan (capacity 1)
  errChanClosed,      \* close(errChan) has run
  readerCloses,       \* calls of reader.Close()
  connOpened,         \* the upgrade produced a socket
  connCloses,         \* calls of conn.Close()
  logCtxDone,         \* the handler's ctx is cancelled
  clientGone,         \* the client closed its end of the socket
  wsConn,             \* the write side of conn: [writeErr, writeDeadline, errorFrame]
  gpc,                \* position of LogService.GetLogs
  gpos,               \* bytes GetLogs has consumed from its reader
  gsize,              \* payload size GetLogs decoded from the last header
  logResult,          \* GetLogs' result bytes
  gerr,               \* the error GetLogs returned: "none" (not returned) | "nil" | a message
  arc,                \* the call of CreateLogArchive for a download request
  zipWriter,          \* its zip.Writer: [made, entries, closes]
  health,             \* the goroutine of startHealthChecker: [pc, cfg, tick, listed, queue]
  healthLogs,         \* the HealthCheckLog records handed to repo.Create, in order
  svc,                \* the write path of ContainerService: [ops, bulk]
  actionLogs          \* the ActionLog records handed to actionLogRepo.Create, in order

vars == << containerStats, dashboardSummary, mu, pc, tick, expired, containers, listResult,
           sampler, statsChan, chanClosed, newStats, summary, mapGen, sumGen, swaps, replaced,
           hpc, hop, hArg, hVal, hGen, kept, httpStatsCalls, ctxDone, tickPending,
           statsJSON, stats, logFrames, logStream, daemonEnds, wpc, rdpc, dpc, rpos, size, buf,
           sink, errChan, errChanClosed, readerCloses, connOpened, connCloses, logCtxDone,
           clientGone, wsConn, gpc, gpos, gsize, logResult, gerr, arc, zipWriter,
           health, healthLogs, svc, actionLogs >>

cacheVars == << containerStats, dashboardSummary, mapGen, sumGen, replaced >>
tickVars == << containers, listResult, sampler, statsChan, chanClosed, newStats, summary >>
refreshVars == << pc, tick, expired, tickVars, swaps >>
clientVars == << hpc, hop, hArg, hVal, hGen, kept, httpStatsCalls >>
stopVars == << ctxDone, tickPending >>
sampleVars == << statsJSON, stats >>
inputVars == << logFrames, logStream, daemonEnds >>
demuxVars == << dpc, rpos, size, buf, sink, errChan, errChanClosed, readerCloses >>
socketVars == << wpc, rdpc, connOpened, connCloses, logCtxDone, clientGone, wsConn >>
getLogsVars == << gpc, gpos, gsize, logResult, gerr >>
logVars == << inputVars, demuxVars, socketVars, getLogsVars >>
archiveVars == << arc, zipWriter >>
healthVars == << health, healthLogs >>
writeVars == << svc, actionLogs >>
serviceVars == << archiveVars, healthVars, writeVars >>
otherVars == << sampleVars, logVars, serviceVars >>

\* no object held: nobody's, of no refresh
NoRef == [ owner |-> "none", gen |-> 0 ]

\* a caller that keeps nothing.  statsRef and summaryRef tell of the object kept:
\* who else refers to it and the refresh that assigned the field it was read from
NoneKept == [ stats |-> NoValue, summary |-> NoValue, statsRef |-> NoRef, summaryRef |-> NoRef ]

\* NewStatsCache: empty map, nil summary, live context, refreshLoop started
InitCache ==
  /\ containerStats = EmptyMap
  /\ dashboardSummary = Nil
  /\ mu = [writer |-> FALSE, readers |-> 0]
  /\ pc = "start"
  /\ tick = 0
  /\ expired = FALSE
  /\ containers = {}
  /\ listResult = "none"
  /\ sampler = [i \in Ids |-> "none"]
  /\ statsChan = << >>
  /\ chanClosed = FALSE
  /\ newStats = EmptyMap
  /\ summary = ZeroSummary
  /\ mapGen = 0
  /\ sumGen = 0
  /\ swaps = 0
  /\ replaced = {}
  /\ hpc = "idle"
  /\ hop = "none"
  /\ hArg = {}
  /\ hVal = NoValue
  /\ hGen = 0
  /\ kept = NoneKept
  /\ httpStatsCalls = 0
  /\ ctxDone = FALSE
  /\ tickPending = FALSE

\* no sampler call under study
InitSampleIdle ==
  /\ statsJSON = NoValue
  /\ stats = NoValue

\* a log request that has not produced a stream yet: nothing read, nothing written
InitDemux ==
  /\ dpc = "none"
  /\ rpos = 0
  /\ size = 0
  /\ buf = << >>
  /\ sink = << >>
  /\ errChan = << >>
  /\ errChanClosed = FALSE
  /\ readerCloses = 0

\* no call of GetLogs
InitGetLogsIdle ==
  /\ gpc = "none"
  /\ gpos = 0
  /\ gsize = 0
  /\ logResult = << >>
  /\ gerr = "none"

\* a websocket.Conn as Upgrade returns it: no write has failed (writeErr is nil),
\* no write deadline is set, and no error text frame has been written to it
NewConn == [ writeErr |-> FALSE, writeDeadline |-> "none", errorFrame |-> "none" ]

\* no log request
InitLogIdle ==
  /\ logFrames = << >>
  /\ logStream = << >>
  /\ daemonEnds = TRUE
  /\ InitDemux
  /\ InitGetLogsIdle
  /\ wpc = "none"
  /\ rdpc = "none"
  /\ connOpened = FALSE
  /\ connCloses = 0
  /\ logCtxDone = FALSE
  /\ clientGone = FALSE
  /\ wsConn = NewConn

\* no download request: CreateLogArchive is not running, no zip.Writer exists
NoArchive ==
  [ pc |-> "none", query |-> [ tail |-> "all", timestamps |-> FALSE ], logOpts |-> << >>,
    containerName |-> << >>, now |-> << >>, err |-> "none" ]

NoZip == [ made |-> FALSE, entries |-> << >>, closes |-> 0 ]

InitArchiveIdle ==
  /\ arc = NoArchive
  /\ zipWriter = NoZip

\* the health checker before its first tick, with the thresholds of its
\* configuration: nothing listed, nothing recorded
HealthStart(cfg) ==
  [ pc |-> "wait", cfg |-> cfg, tick |-> 0, listed |-> << >>, queue |-> << >> ]

InitHealthIdle ==
  /\ health = HealthStart([ CPUThreshold |-> 80, MemoryThreshold |-> 80 ])
  /\ healthLogs = << >>

\* the zero value of BulkOperationResult (the empty container id is 0)
ZeroResult == [ ContainerID |-> 0, ContainerName |-> "", Success |-> FALSE, Error |-> "" ]

\* no call of a mutating operation is running for a caller
NoOp == [ pc |-> "idle", kind |-> "none", id |-> 0, name |-> "", success |-> FALSE,
          err |-> "nil", logErr |-> FALSE, status |-> 0 ]

\* no bulk request has arrived
NoBulk ==
  [ pc |-> "idle", kind |-> "none", ids |-> << >>, i |-> 0, result |-> ZeroResult,
    results |-> << >>, response |-> [ total |-> 0, success |-> 0, failed |-> 0 ] ]

\* the callers of the mutating operations: a handler of one container, a bulk loop
Callers == { "handler", "bulk" }

InitWriteIdle ==
  /\ svc = [ ops |-> [ c \in Callers |-> NoOp ], bulk |-> NoBulk ]
  /\ actionLogs = << >>

InitServicesIdle ==
  /\ InitArchiveIdle
  /\ InitHealthIdle
  /\ InitWriteIdle

Init ==
  /\ InitCache
  /\ InitSampleIdle
  /\ InitLogIdle
  /\ InitServicesIdle

\* ------------------------------------------------------------ refresh loop
\* refreshLoop: the initial refresh, then one refresh per ticker event.  The
\* select receives a tick that is pending in the ticker's channel, or, while the
\* context is live, blocks until the next tick arrives.
\* refresh begins by creating a context with a 5 s timeout.
\* the locals of a new invocation of refresh
FreshLocals ==
  /\ expired' = FALSE
  /\ containers' = {}
  /\ listResult' = "none"
  /\ sampler' = [i \in Ids |-> "none"]
  /\ statsChan' = << >>
  /\ chanClosed' = FALSE
  /\ newStats' = EmptyMap
  /\ summary' = ZeroSummary
  /\ replaced' = {}

\* refreshLoop going to its select without the initial refresh
LoopInitialRefresh_TickerFirst ==
  /\ pc = "start"
  /\ pc' = "wait"
  /\ UNCHANGED << cacheVars, mu, tick, expired, tickVars, swaps, clientVars, stopVars, otherVars >>

\* c.refresh() at the top of refreshLoop, before the ticker is created
LoopInitialRefresh ==
  /\ pc = "start"
  /\ tick < MaxTicks
  /\ pc' = "list"
  /\ tick' = tick + 1
  /\ FreshLocals
  /\ UNCHANGED << containerStats, dashboardSummary, mapGen, sumGen, mu, swaps, clientVars, stopVars, otherVars >>

LoopTick ==
  /\ pc = "wait"
  /\ tickPending \/ ~ctxDone
  /\ tick < MaxTicks
  /\ pc' = "list"
  /\ tick' = tick + 1
  /\ tickPending' = FALSE
  /\ FreshLocals
  /\ UNCHANGED << containerStats, dashboardSummary, mapGen, sumGen, mu, swaps, clientVars,
                  ctxDone, otherVars >>

\* the deadline of refresh's context passes while a daemon call may be in flight
BudgetExpire ==
  /\ pc \in {"list", "collect"}
  /\ ~expired
  /\ expired' = TRUE
  /\ UNCHANGED << cacheVars, mu, pc, tick, tickVars, swaps, clientVars, stopVars, otherVars >>

\* ListFail of a refresh that goes on to publish what it has, the empty snapshot
ListFail_PublishesEmpty ==
  /\ pc = "list"
  /\ listResult' = "error"
  /\ pc' = "lock"
  /\ UNCHANGED << cacheVars, mu, tick, expired, containers, sampler, statsChan, chanClosed,
                  newStats, summary, swaps, clientVars, stopVars, otherVars >>

\* ContainerList fails (daemon error, or the context expired): log and return
ListFail ==
  /\ pc = "list"
  /\ listResult' = "error"
  /\ pc' = "wait"
  /\ UNCHANGED << cacheVars, mu, tick, expired, containers, sampler, statsChan, chanClosed,
                  newStats, summary, swaps, clientVars, stopVars, otherVars >>

\* ListOk with the empty branch returning without publishing
ListOk_EmptyReturns(cs) ==
  /\ pc = "list"
  /\ ~expired
  /\ containers' = cs
  /\ listResult' = IF cs = {} THEN "empty" ELSE "some"
  /\ sampler' = [i \in Ids |-> IF i \in cs THEN "running" ELSE "none"]
  /\ statsChan' = << >>
  /\ chanClosed' = FALSE
  /\ newStats' = EmptyMap
  /\ summary' = ZeroSummary
  /\ pc' = IF cs = {} THEN "wait" ELSE "collect"
  /\ UNCHANGED << cacheVars, mu, tick, expired, swaps, clientVars, stopVars, otherVars >>

\* ListOk with the cache lock taken before the samplers are spawned
ListOk_Locked(cs) ==
  /\ pc = "list"
  /\ ~expired
  /\ ~mu.writer
  /\ mu.readers = 0
  /\ mu' = [mu EXCEPT !.writer = TRUE]
  /\ containers' = cs
  /\ listResult' = IF cs = {} THEN "empty" ELSE "some"
  /\ sampler' = [i \in Ids |-> IF i \in cs THEN "running" ELSE "none"]
  /\ statsChan' = << >>
  /\ chanClosed' = FALSE
  /\ newStats' = EmptyMap
  /\ summary' = ZeroSummary
  /\ pc' = IF cs = {} THEN "assignMap" ELSE "collect"
  /\ UNCHANGED << cacheVars, tick, expired, swaps, clientVars, stopVars, otherVars >>

\* ContainerList succeeds with the running set cs.  Empty: go and publish the
\* empty snapshot.  Otherwise make the channel and spawn one sampler per id.
ListOk(cs) ==
  /\ pc = "list"
  /\ ~expired
  /\ containers' = cs
  /\ listResult' = IF cs = {} THEN "empty" ELSE "some"
  /\ sampler' = [i \in Ids |-> IF i \in cs THEN "running" ELSE "none"]
  /\ statsChan' = << >>
  /\ chanClosed' = FALSE
  /\ newStats' = EmptyMap
  /\ summary' = ZeroSummary
  /\ pc' = IF cs = {} THEN "lock" ELSE "collect"
  /\ UNCHANGED << cacheVars, mu, tick, expired, swaps, clientVars, stopVars, otherVars >>

\* a sampler goroutine: getContainerStats answered by the daemon
SamplerOk(id, raw) ==
  /\ sampler[id] = "running"
  /\ ~expired
  /\ statsChan' = Append(statsChan, OkResult(id, getContainerStats(raw)))
  /\ sampler' = [sampler EXCEPT ![id] = "ok"]
  /\ UNCHANGED << cacheVars, mu, pc, tick, expired, containers, listResult, chanClosed,
                  newStats, summary, swaps, clientVars, stopVars, otherVars >>

\* a sampler goroutine: the daemon call or the decoding fails
SamplerErr(id) ==
  /\ sampler[id] = "running"
  /\ ~expired
  /\ statsChan' = Append(statsChan, ErrResult(id))
  /\ sampler' = [sampler EXCEPT ![id] = "failed"]
  /\ UNCHANGED << cacheVars, mu, pc, tick, expired, containers, listResult, chanClosed,
                  newStats, summary, swaps, clientVars, stopVars, otherVars >>

\* SamplerCancelled for a sampler whose call runs on a context without deadline:
\* the expiry of the budget never ends it
SamplerCancelled_Background(id) ==
  /\ sampler[id] = "running"
  /\ expired
  /\ FALSE
  /\ UNCHANGED vars

\* a sampler goroutine whose call is cut by the expired context
SamplerCancelled(id) ==
  /\ sampler[id] = "running"
  /\ expired
  /\ statsChan' = Append(statsChan, ErrResult(id))
  /\ sampler' = [sampler EXCEPT ![id] = "cancelled"]
  /\ UNCHANGED << cacheVars, mu, pc, tick, expired, containers, listResult, chanClosed,
                  newStats, summary, swaps, clientVars, stopVars, otherVars >>

\* CloseChan of a closer that does not wait for the samplers
CloseChan_NoWait ==
  /\ pc = "collect"
  /\ ~chanClosed
  /\ chanClosed' = TRUE
  /\ UNCHANGED << cacheVars, mu, pc, tick, expired, containers, listResult, sampler,
                  statsChan, newStats, summary, swaps, clientVars, stopVars, otherVars >>

\* go func() { wg.Wait(); close(statsChan) }()
CloseChan ==
  /\ pc = "collect"
  /\ ~chanClosed
  /\ \A i \in Ids : sampler[i] # "running"
  /\ chanClosed' = TRUE
  /\ UNCHANGED << cacheVars, mu, pc, tick, expired, containers, listResult, sampler,
                  statsChan, newStats, summary, swaps, clientVars, stopVars, otherVars >>

\* Aggregate with the memory limit summed from the usage field
Aggregate_LimitFromUsage(s, st) ==
  [ s EXCEPT !.TotalCPUPercent = @ + st.CPUPercent,
             !.TotalMemoryUsage = UAdd(@, st.MemoryUsage),
             !.TotalMemoryLimit = UAdd(@, st.MemoryUsage),
             !.TotalNetworkRx = UAdd(@, st.NetworkRx),
             !.TotalNetworkTx = UAdd(@, st.NetworkTx),
             !.ContainerCount = @ + 1 ]

\* the aggregation of one successful result into the local summary
Aggregate(s, st) ==
  [ s EXCEPT !.TotalCPUPercent = @ + st.CPUPercent,
             !.TotalMemoryUsage = UAdd(@, st.MemoryUsage),
             !.TotalMemoryLimit = UAdd(@, st.MemoryLimit),
             !.TotalNetworkRx = UAdd(@, st.NetworkRx),
             !.TotalNetworkTx = UAdd(@, st.NetworkTx),
             !.ContainerCount = @ + 1 ]

\* Collect with "return" in place of "continue" on a failed result
Collect_ReturnOnError ==
  /\ pc = "collect"
  /\ statsChan # << >>
  /\ LET result == Head(statsChan)
     IN IF result.err
          THEN /\ pc' = "wait"
               /\ UNCHANGED << newStats, summary >>
          ELSE /\ newStats' = MapPut(newStats, result.containerID, result.stats)
               /\ summary' = Aggregate(summary, result.stats)
               /\ pc' = pc
  /\ statsChan' = Tail(statsChan)
  /\ UNCHANGED << cacheVars, mu, tick, expired, containers, listResult, sampler,
                  chanClosed, swaps, clientVars, stopVars, otherVars >>

\* one iteration of "for result := range statsChan"
Collect ==
  /\ pc = "collect"
  /\ statsChan # << >>
  /\ LET result == Head(statsChan)
     IN IF result.err
          THEN UNCHANGED << newStats, summary >>
          ELSE /\ newStats' = MapPut(newStats, result.containerID, result.stats)
               /\ summary' = Aggregate(summary, result.stats)
  /\ statsChan' = Tail(statsChan)
  /\ UNCHANGED << cacheVars, mu, pc, tick, expired, containers, listResult, sampler,
                  chanClosed, swaps, clientVars, stopVars, otherVars >>

\* the average memory percentage computed after the loop
WithMemoryPercent(s) ==
  IF s.TotalMemoryLimit > 0
    THEN [ s EXCEPT !.TotalMemoryPercent = (s.TotalMemoryUsage * 100) \div s.TotalMemoryLimit ]
    ELSE s

\* the range loop ends: channel closed and drained
CollectDone ==
  /\ pc = "collect"
  /\ chanClosed
  /\ statsChan = << >>
  /\ summary' = WithMemoryPercent(summary)
  /\ pc' = "lock"
  /\ UNCHANGED << cacheVars, mu, tick, expired, containers, listResult, sampler, statsChan,
                  chanClosed, newStats, swaps, clientVars, stopVars, otherVars >>

\* PublishLock taking the lock in shared mode: writers are not excluded from readers
PublishLock_Shared ==
  /\ pc = "lock"
  /\ ~mu.writer
  /\ pc' = "assignMap"
  /\ UNCHANGED << cacheVars, mu, tick, expired, tickVars, swaps, clientVars, stopVars, otherVars >>

\* c.mu.Lock()
PublishLock ==
  /\ pc = "lock"
  /\ ~mu.writer
  /\ mu.readers = 0
  /\ mu' = [mu EXCEPT !.writer = TRUE]
  /\ pc' = "assignMap"
  /\ UNCHANGED << cacheVars, tick, expired, tickVars, swaps, clientVars, stopVars, otherVars >>

\* PublishMap that updates the stored map in place instead of replacing it
PublishMap_Merge ==
  /\ pc = "assignMap"
  /\ containerStats' = [ i \in (DOMAIN containerStats) \cup (DOMAIN newStats) |->
                           IF i \in DOMAIN newStats THEN newStats[i] ELSE containerStats[i] ]
  /\ mapGen' = tick
  /\ replaced' = DOMAIN containerStats
  /\ pc' = "assignSummary"
  /\ UNCHANGED << dashboardSummary, sumGen, mu, tick, expired, tickVars, swaps, clientVars, stopVars, otherVars >>

\* c.containerStats = newStats
PublishMap ==
  /\ pc = "assignMap"
  /\ containerStats' = newStats
  /\ mapGen' = tick
  /\ replaced' = DOMAIN containerStats
  /\ pc' = "assignSummary"
  /\ UNCHANGED << dashboardSummary, sumGen, mu, tick, expired, tickVars, swaps, clientVars, stopVars, otherVars >>

\* PublishSummary that leaves the stored summary as it was
PublishSummary_Skip ==
  /\ pc = "assignSummary"
  /\ pc' = "unlock"
  /\ UNCHANGED << cacheVars, mu, tick, expired, tickVars, swaps, clientVars, stopVars, otherVars >>

\* c.dashboardSummary = summary
PublishSummary ==
  /\ pc = "assignSummary"
  /\ dashboardSummary' = summary
  /\ sumGen' = tick
  /\ pc' = "unlock"
  /\ UNCHANGED << containerStats, mapGen, replaced, mu, tick, expired, tickVars, swaps,
                  clientVars, stopVars, otherVars >>

\* c.mu.Unlock(); refresh returns to the loop
PublishUnlock ==
  /\ pc = "unlock"
  /\ mu' = [mu EXCEPT !.writer = FALSE]
  /\ swaps' = tick
  /\ pc' = "wait"
  /\ UNCHANGED << cacheVars, tick, expired, tickVars, clientVars, stopVars, otherVars >>

\* StatsCache.Stop: c.cancel().  The first call closes the Done channel of c.ctx;
\* a later call finds the context cancelled and does nothing.
Stop ==
  /\ ctxDone' = TRUE
  /\ UNCHANGED << cacheVars, mu, refreshVars, clientVars, tickPending, otherVars >>

\* the ticker created after the initial refresh delivers a tick into its channel
\* (capacity 1) while refreshLoop is not receiving: a refresh is in flight, or the
\* select has not been evaluated yet
TickerFire ==
  /\ tick >= 2 \/ (tick = 1 /\ pc = "wait")
  /\ pc # "exited"
  /\ ~tickPending
  /\ tickPending' = TRUE
  /\ UNCHANGED << cacheVars, mu, refreshVars, clientVars, ctxDone, otherVars >>

\* refreshLoop's select takes "case <-c.ctx.Done(): return".  The select is
\* evaluated only between refreshes; when a tick is pending as well, either case
\* may be taken (LoopTick stays enabled).
LoopExit ==
  /\ pc = "wait"
  /\ ctxDone
  /\ pc' = "exited"
  /\ UNCHANGED << cacheVars, mu, tick, expired, tickVars, swaps, clientVars, stopVars, otherVars >>

\* ---------------------------------------------------------- cache getters
\* what each getter of StatsCache copies while it holds the read lock
GetAllContainerStats == [ kind |-> "stats", v |-> [ i \in DOMAIN containerStats |-> containerStats[i] ] ]

\* GetDashboardSummary reading the summary the refresh in progress is building
GetDashboardSummary_Unpublished == [ kind |-> "summary", v |-> summary ]

GetDashboardSummary ==
  [ kind |-> "summary", v |-> IF dashboardSummary = Nil THEN ZeroSummary ELSE dashboardSummary ]

GetContainerStats(id) ==
  [ kind |-> "one", v |-> IF id \in DOMAIN containerStats THEN containerStats[id] ELSE Nil ]

\* every getter hands out the stored object itself
Owner_Stored(op) == "cache"

\* the object a getter returns: GetAllContainerStats returns the map it made and
\* GetDashboardSummary the address of its local copy, which only the caller has;
\* GetContainerStats returns the stored pointer, which the cache's map has too
Owner(op) == IF op \in {"list", "summary"} THEN "caller" ELSE "cache"

\* c.mu.RLock() of the getter the client is in
GetterRLock ==
  /\ hpc = "getter"
  /\ ~mu.writer
  /\ mu' = [mu EXCEPT !.readers = @ + 1]
  /\ hpc' = "rlocked"
  /\ UNCHANGED << cacheVars, refreshVars, stopVars, otherVars, hop, hArg, hVal, hGen, kept, httpStatsCalls >>

\* the body of the getter, under the read lock
GetterCopy ==
  /\ hpc = "rlocked"
  /\ hVal' = CASE hop = "list" -> GetAllContainerStats
               [] hop = "summary" -> GetDashboardSummary
               [] OTHER -> GetContainerStats(hArg)
  /\ hGen' = IF hop = "summary" THEN sumGen ELSE mapGen
  /\ hpc' = "copied"
  /\ UNCHANGED << cacheVars, mu, refreshVars, stopVars, otherVars, hop, hArg, kept, httpStatsCalls >>

\* the deferred c.mu.RUnlock(); the request is answered and its values dropped
GetterReturn ==
  /\ hpc = "copied"
  /\ mu' = [mu EXCEPT !.readers = @ - 1]
  /\ hpc' = "idle"
  /\ hop' = "none"
  /\ hArg' = {}
  /\ hVal' = NoValue
  /\ hGen' = 0
  /\ UNCHANGED << cacheVars, refreshVars, stopVars, otherVars, kept, httpStatsCalls >>

\* the deferred c.mu.RUnlock(); the caller keeps the value it was handed
GetterReturnKeep ==
  /\ hpc = "copied"
  /\ mu' = [mu EXCEPT !.readers = @ - 1]
  /\ kept' = IF hop = "summary"
               THEN [kept EXCEPT !.summary = hVal,
                                 !.summaryRef = [ owner |-> Owner(hop), gen |-> hGen ]]
               ELSE [kept EXCEPT !.stats = hVal,
                                 !.statsRef = [ owner |-> Owner(hop), gen |-> hGen ]]
  /\ hpc' = "idle"
  /\ hop' = "none"
  /\ hArg' = {}
  /\ hVal' = NoValue
  /\ hGen' = 0
  /\ UNCHANGED << cacheVars, refreshVars, stopVars, otherVars, httpStatsCalls >>

\* the caller drops the values it kept
CallerForget ==
  /\ hpc = "idle"
  /\ kept # NoneKept
  /\ kept' = NoneKept
  /\ UNCHANGED << cacheVars, mu, refreshVars, stopVars, otherVars, hpc, hop, hArg, hVal, hGen, httpStatsCalls >>

\* a container count no refresh computes: one more than there are containers
Scribble == NumIds + 1

\* what the caller may do to the map it holds: delete(m, id), or m[id] = nil
\* (a new key, or another value for a key it has)
MapEdit(m, edit, id) ==
  IF edit = "delete" THEN [ i \in (DOMAIN m) \ {id} |-> m[i] ]
  ELSE [ i \in (DOMAIN m) \cup {id} |-> IF i = id THEN Nil ELSE m[i] ]

\* the object of the given reference is the one the cache has stored now
StoredNow(ref, gen) == ref.owner = "cache" /\ ref.gen = gen

\* the caller writes to the map a getter returned to it: the write reaches the
\* stored map when the object is the stored one
CallerEditMap(edit, id) ==
  /\ hpc = "idle"
  /\ kept.stats.kind = "stats"
  /\ MapEdit(kept.stats.v, edit, id) # kept.stats.v
  /\ kept' = [ kept EXCEPT !.stats.v = MapEdit(@, edit, id) ]
  /\ IF StoredNow(kept.statsRef, mapGen)
       THEN containerStats' = MapEdit(containerStats, edit, id)
       ELSE UNCHANGED containerStats
  /\ UNCHANGED << dashboardSummary, mapGen, sumGen, replaced, mu, refreshVars, stopVars,
                  otherVars, hpc, hop, hArg, hVal, hGen, httpStatsCalls >>

\* the caller writes to a field of the summary a getter returned to it: the write
\* reaches the stored summary when the object is the stored one
CallerEditSummary ==
  /\ hpc = "idle"
  /\ kept.summary.kind = "summary"
  /\ kept.summary.v.ContainerCount # Scribble
  /\ kept' = [ kept EXCEPT !.summary.v.ContainerCount = Scribble ]
  /\ IF StoredNow(kept.summaryRef, sumGen) /\ dashboardSummary # Nil
       THEN dashboardSummary' = [ dashboardSummary EXCEPT !.ContainerCount = Scribble ]
       ELSE UNCHANGED dashboardSummary
  /\ UNCHANGED << containerStats, mapGen, sumGen, replaced, mu, refreshVars, stopVars,
                  otherVars, hpc, hop, hArg, hVal, hGen, httpStatsCalls >>

\* a direct call of StatsCache.GetContainerStats(id)
CacheGetContainerStats(id) ==
  /\ hpc = "idle"
  /\ hpc' = "getter"
  /\ hop' = "one"
  /\ hArg' = id
  /\ UNCHANGED << cacheVars, mu, refreshVars, stopVars, otherVars, hVal, hGen, kept, httpStatsCalls >>

\* ----------------------------------------------------- HTTP read handlers
\* GET /containers: ContainerService.ListContainers.  Its own ContainerList
\* returned the running containers rc; with IncludeStats and rc non-empty it
\* goes on to GetAllContainerStats, otherwise it answers without stats.
HttpListContainers(rc, includeStats) ==
  /\ hpc = "idle"
  /\ IF includeStats /\ rc # {}
       THEN /\ hpc' = "getter"
            /\ hop' = "list"
            /\ hArg' = rc
       ELSE UNCHANGED << hpc, hop, hArg >>
  /\ UNCHANGED << cacheVars, mu, refreshVars, stopVars, otherVars, hVal, hGen, kept, httpStatsCalls >>

\* GET /dashboard/summary: ContainerService.GetDashboardSummary
HttpDashboardSummary ==
  /\ hpc = "idle"
  /\ hpc' = "getter"
  /\ hop' = "summary"
  /\ UNCHANGED << cacheVars, mu, refreshVars, stopVars, otherVars, hArg, hVal, hGen, kept, httpStatsCalls >>

\* GET /containers/:id: ContainerService.GetContainer up to its stats step.
\* The inspect succeeded; a running container goes on to getContainerStats.
HttpGetContainer(id, running) ==
  /\ hpc = "idle"
  /\ IF running
       THEN /\ httpStatsCalls < MaxHttpStatsCalls
            /\ hpc' = "stats"
            /\ hop' = "get"
            /\ hArg' = id
       ELSE UNCHANGED << hpc, hop, hArg >>
  /\ UNCHANGED << cacheVars, mu, refreshVars, stopVars, otherVars, hVal, hGen, kept, httpStatsCalls >>

\* GetContainer's s.getContainerStats(ctx, containerID): a stats call to the
\* daemon; the answer (or the logged error) ends the request.
HttpGetContainerStats ==
  /\ hpc = "stats"
  /\ httpStatsCalls' = httpStatsCalls + 1
  /\ hpc' = "idle"
  /\ hop' = "none"
  /\ hArg' = {}
  /\ UNCHANGED << cacheVars, mu, refreshVars, stopVars, otherVars, hVal, hGen, kept >>

\* ------------------------------------------------------- log demultiplexer
\* the variables of the aggregator, its clients and the sampler under study
coreVars == << cacheVars, mu, refreshVars, clientVars, stopVars, sampleVars >>

\* the variables that no step of a log stream touches
aggVars == << coreVars, serviceVars >>

\* the four size bytes of a frame header, big-endian
BE32(n) == << (n \div 16777216) % 256, (n \div 65536) % 256, (n \div 256) % 256, n % 256 >>

\* a frame as the daemon puts it on the stream: [STREAM_TYPE, 0, 0, 0, SIZE1..SIZE4], payload
FrameBytes(f) == << f.kind, 0, 0, 0 >> \o BE32(Len(f.payload)) \o f.payload

\* the multiplexed stream of a sequence of frames
RECURSIVE Mux(_)
Mux(fs) == IF fs = << >> THEN << >> ELSE FrameBytes(Head(fs)) \o Mux(Tail(fs))

\* HeaderSize taking the four bytes one place too early (bytes 3..6 of the header)
HeaderSize_ShiftedIndex(header) ==
  header[4] * 16777216 + header[5] * 65536 + header[6] * 256 + header[7]

\* size := uint32(header[4])<<24 | uint32(header[5])<<16 | uint32(header[6])<<8 | uint32(header[7])
HeaderSize(header) == header[5] * 16777216 + header[6] * 65536 + header[7] * 256 + header[8]

\* io.ReadFull(reader, b) with len(b) = k on a stream that ends after its bytes:
\* k bytes and no error; io.EOF when no byte could be read; io.ErrUnexpectedEOF
\* when some but not all were read
ReadFull(stream, pos, k) ==
  LET avail == Len(stream) - pos
  IN IF avail >= k THEN [ n |-> k, err |-> "nil" ]
     ELSE IF avail = 0 THEN [ n |-> 0, err |-> "EOF" ]
     ELSE [ n |-> avail, err |-> "ErrUnexpectedEOF" ]

\* the read returns: the bytes are there, or the daemon has ended the stream
ReadReturns(k) == (Len(logStream) - rpos >= k) \/ daemonEnds

\* top of the loop: select { case <-ctx.Done(): errChan <- ctx.Err(); return; default: }
StreamSelect ==
  /\ dpc = "select"
  /\ IF logCtxDone
       THEN /\ errChan' = Append(errChan, "context canceled")
            /\ dpc' = "closeReader"
       ELSE /\ dpc' = "header"
            /\ UNCHANGED errChan
  /\ UNCHANGED << aggVars, inputVars, rpos, size, buf, sink, errChanClosed, readerCloses,
                  socketVars, getLogsVars >>

\* StreamReadHeader without the "if size == 0 { continue }": a header announcing
\* no payload goes on to the payload read and the write like any other
StreamReadHeader_NoZeroSkip ==
  /\ dpc = "header"
  /\ ReadReturns(8)
  /\ LET r == ReadFull(logStream, rpos, 8)
     IN /\ rpos' = rpos + r.n
        /\ CASE r.err = "nil" ->
                  /\ size' = HeaderSize(SubSeq(logStream, rpos + 1, rpos + 8))
                  /\ dpc' = "payload"
                  /\ UNCHANGED errChan
             [] r.err = "EOF" ->
                  /\ dpc' = "closeReader"
                  /\ UNCHANGED << size, errChan >>
             [] OTHER ->
                  /\ errChan' = Append(errChan, "failed to read log header: unexpected EOF")
                  /\ dpc' = "closeReader"
                  /\ UNCHANGED size
  /\ UNCHANGED << aggVars, inputVars, buf, sink, errChanClosed, readerCloses, socketVars, getLogsVars >>

\* io.ReadFull(reader, header) and the decoding of the size
StreamReadHeader ==
  /\ dpc = "header"
  /\ ReadReturns(8)
  /\ LET r == ReadFull(logStream, rpos, 8)
     IN /\ rpos' = rpos + r.n
        /\ CASE r.err = "nil" ->
                  /\ size' = HeaderSize(SubSeq(logStream, rpos + 1, rpos + 8))
                  /\ dpc' = IF size' = 0 THEN "select" ELSE "payload"
                  /\ UNCHANGED errChan
             [] r.err = "EOF" ->
                  /\ dpc' = "closeReader"
                  /\ UNCHANGED << size, errChan >>
             [] OTHER ->
                  /\ errChan' = Append(errChan, "failed to read log header: unexpected EOF")
                  /\ dpc' = "closeReader"
                  /\ UNCHANGED size
  /\ UNCHANGED << aggVars, inputVars, buf, sink, errChanClosed, readerCloses, socketVars, getLogsVars >>

\* StreamReadPayload that queues the payload for a writer running on its own and
\* goes on to the next header at once
StreamReadPayload_Async ==
  /\ dpc = "payload"
  /\ ReadReturns(size)
  /\ LET r == ReadFull(logStream, rpos, size)
     IN /\ rpos' = rpos + r.n
        /\ CASE r.err = "nil" ->
                  /\ buf' = buf \o SubSeq(logStream, rpos + 1, rpos + r.n)
                  /\ dpc' = "select"
                  /\ UNCHANGED errChan
             [] r.err = "EOF" ->
                  /\ dpc' = "closeReader"
                  /\ UNCHANGED << buf, errChan >>
             [] OTHER ->
                  /\ errChan' = Append(errChan, "failed to read log payload: unexpected EOF")
                  /\ dpc' = "closeReader"
                  /\ UNCHANGED buf
  /\ UNCHANGED << aggVars, inputVars, size, sink, errChanClosed, readerCloses, socketVars,
                  getLogsVars >>

\* io.ReadFull(reader, buf[:size])
StreamReadPayload ==
  /\ dpc = "payload"
  /\ ReadReturns(size)
  /\ LET r == ReadFull(logStream, rpos, size)
     IN /\ rpos' = rpos + r.n
        /\ CASE r.err = "nil" ->
                  /\ buf' = SubSeq(logStream, rpos + 1, rpos + r.n)
                  /\ dpc' = "write"
                  /\ UNCHANGED errChan
             [] r.err = "EOF" ->
                  /\ dpc' = "closeReader"
                  /\ UNCHANGED << buf, errChan >>
             [] OTHER ->
                  /\ errChan' = Append(errChan, "failed to read log payload: unexpected EOF")
                  /\ dpc' = "closeReader"
                  /\ UNCHANGED buf
  /\ UNCHANGED << aggVars, inputVars, size, sink, errChanClosed, readerCloses, socketVars, getLogsVars >>

\* a read that the cancelled context cuts returns the context's error, which the
\* goroutine wraps (%w) like any other read error
StreamReadCancelled ==
  /\ dpc \in {"header", "payload"}
  /\ logCtxDone
  /\ errChan' = Append(errChan, IF dpc = "header"
                                   THEN "failed to read log header: context canceled"
                                   ELSE "failed to read log payload: context canceled")
  /\ dpc' = "closeReader"
  /\ UNCHANGED << aggVars, inputVars, rpos, size, buf, sink, errChanClosed, readerCloses,
                  socketVars, getLogsVars >>

\* writer.Write(buf[:n]) returns without error (websocketWriter.Write: a new 10 s
\* deadline is set and the message goes out within it); the Flush that follows
\* does nothing
StreamWriteOk ==
  /\ dpc = "write"
  /\ connCloses = 0
  /\ ~wsConn.writeErr
  /\ sink' = Append(sink, buf)
  /\ buf' = << >>
  /\ dpc' = "select"
  /\ wsConn' = [ wsConn EXCEPT !.writeDeadline = "live" ]
  /\ UNCHANGED << aggVars, inputVars, rpos, size, errChan, errChanClosed, readerCloses,
                  wpc, rdpc, connOpened, connCloses, logCtxDone, clientGone, getLogsVars >>

\* StreamWriteFail of a goroutine that reports the failed write and goes on with
\* the next frame
StreamWriteFail_Continue ==
  /\ dpc = "write"
  /\ errChan' = Append(errChan, "failed to write log data")
  /\ buf' = << >>
  /\ dpc' = "select"
  /\ wsConn' = [ wsConn EXCEPT !.writeErr = TRUE, !.writeDeadline = "live" ]
  /\ UNCHANGED << aggVars, inputVars, rpos, size, sink, errChanClosed, readerCloses,
                  wpc, rdpc, connOpened, connCloses, logCtxDone, clientGone, getLogsVars >>

\* writer.Write fails: deadline exceeded, peer gone, or socket closed.  The
\* connection keeps the error: every later write on it fails.
StreamWriteFail ==
  /\ dpc = "write"
  /\ errChan' = Append(errChan, "failed to write log data")
  /\ buf' = << >>
  /\ dpc' = "closeReader"
  /\ wsConn' = [ wsConn EXCEPT !.writeErr = TRUE, !.writeDeadline = "live" ]
  /\ UNCHANGED << aggVars, inputVars, rpos, size, sink, errChanClosed, readerCloses,
                  wpc, rdpc, connOpened, connCloses, logCtxDone, clientGone, getLogsVars >>

\* StreamCloseReader of a goroutine that returns without closing the reader
StreamCloseReader_Forgotten ==
  /\ dpc = "closeReader"
  /\ dpc' = "closeChan"
  /\ UNCHANGED << aggVars, inputVars, rpos, size, buf, sink, errChan, errChanClosed,
                  readerCloses, socketVars, getLogsVars >>

\* the deferred reader.Close()
StreamCloseReader ==
  /\ dpc = "closeReader"
  /\ readerCloses' = readerCloses + 1
  /\ dpc' = "closeChan"
  /\ UNCHANGED << aggVars, inputVars, rpos, size, buf, sink, errChan, errChanClosed,
                  socketVars, getLogsVars >>

\* the deferred close(errChan); the goroutine ends
StreamCloseErrChan ==
  /\ dpc = "closeChan"
  /\ errChanClosed' = TRUE
  /\ dpc' = "done"
  /\ UNCHANGED << aggVars, inputVars, rpos, size, buf, sink, errChan, readerCloses,
                  socketVars, getLogsVars >>

\* LogService.GetLogs runs the same loop on its own reader and appends each
\* payload to its result; the deferred reader.Close() runs as it returns.
\* io.ReadFull(reader, header) and the decoding of the size
GetLogsReadHeader ==
  /\ gpc = "header"
  /\ LET r == ReadFull(logStream, gpos, 8)
     IN /\ gpos' = gpos + r.n
        /\ CASE r.err = "nil" ->
                  /\ gsize' = HeaderSize(SubSeq(logStream, gpos + 1, gpos + 8))
                  /\ gpc' = IF gsize' = 0 THEN "header" ELSE "payload"
                  /\ UNCHANGED << logResult, gerr, readerCloses >>
             [] r.err = "EOF" ->
                  /\ gpc' = "returned"
                  /\ gerr' = "nil"
                  /\ readerCloses' = readerCloses + 1
                  /\ UNCHANGED << gsize, logResult >>
             [] OTHER ->
                  /\ gpc' = "returned"
                  /\ gerr' = "failed to read log header: unexpected EOF"
                  /\ logResult' = << >>
                  /\ readerCloses' = readerCloses + 1
                  /\ UNCHANGED gsize
  /\ UNCHANGED << aggVars, inputVars, dpc, rpos, size, buf, sink, errChan, errChanClosed,
                  socketVars >>

\* io.ReadFull(reader, buf[:size]) and result = append(result, buf[:n]...)
GetLogsReadPayload ==
  /\ gpc = "payload"
  /\ LET r == ReadFull(logStream, gpos, gsize)
     IN /\ gpos' = gpos + r.n
        /\ CASE r.err = "nil" ->
                  /\ logResult' = logResult \o SubSeq(logStream, gpos + 1, gpos + r.n)
                  /\ gpc' = "header"
                  /\ UNCHANGED << gerr, readerCloses >>
             [] r.err = "EOF" ->
                  /\ gpc' = "returned"
                  /\ gerr' = "nil"
                  /\ readerCloses' = readerCloses + 1
                  /\ UNCHANGED logResult
             [] OTHER ->
                  /\ gpc' = "returned"
                  /\ gerr' = "failed to read log payload: unexpected EOF"
                  /\ logResult' = << >>
                  /\ readerCloses' = readerCloses + 1
  /\ UNCHANGED << aggVars, inputVars, gsize, dpc, rpos, size, buf, sink, errChan,
                  errChanClosed, socketVars >>

\* --------------------------------------------------- WebSocket log handler
\* LogHandler.StreamLogs: h.upgrader.Upgrade; on failure it returns without a socket,
\* on success conn.Close() is deferred
WsUpgrade(ok) ==
  /\ wpc = "upgrade"
  /\ IF ok THEN /\ connOpened' = TRUE
                /\ wpc' = "welcome"
           ELSE /\ wpc' = "returned"
                /\ UNCHANGED connOpened
  /\ UNCHANGED << aggVars, inputVars, demuxVars, rdpc, connCloses, logCtxDone, clientGone,
                  wsConn, getLogsVars >>

\* conn.SetWriteDeadline(now + 10 s) and the welcome message; a failed write
\* returns (the deferred Close runs)
WsWelcome(ok) ==
  /\ wpc = "welcome"
  /\ wpc' = IF ok THEN "spawn" ELSE "deferClose"
  /\ wsConn' = [ wsConn EXCEPT !.writeDeadline = "live", !.writeErr = ~ok ]
  /\ UNCHANGED << aggVars, inputVars, demuxVars, rdpc, connOpened, connCloses, logCtxDone,
                  clientGone, getLogsVars >>

\* conn.WriteMessage(TextMessage, "Error: ...") of the handler, which sets no
\* deadline of its own: the write goes out under the deadline the last
\* SetWriteDeadline left.  It fails on a connection that keeps a write error, that
\* is closed, or whose deadline has passed; a client that has gone may or may not
\* take it.  A failed write leaves its error on the connection.
CanWrite == ~wsConn.writeErr /\ connCloses = 0 /\ wsConn.writeDeadline # "passed"

WriteError(text, taken) ==
  IF CanWrite /\ (taken \/ ~clientGone)
    THEN [ wsConn EXCEPT !.errorFrame = text ]
    ELSE [ wsConn EXCEPT !.writeErr = TRUE ]

\* ten seconds pass after the last SetWriteDeadline
DeadlinePass ==
  /\ connOpened
  /\ connCloses = 0
  /\ wsConn.writeDeadline = "live"
  /\ wsConn' = [ wsConn EXCEPT !.writeDeadline = "passed" ]
  /\ UNCHANGED << aggVars, inputVars, demuxVars, wpc, rdpc, connOpened, connCloses,
                  logCtxDone, clientGone, getLogsVars >>

\* ctx, cancel := context.WithCancel(...); defer cancel(); go func() { ReadMessage loop }()
WsSpawnReader ==
  /\ wpc = "spawn"
  /\ rdpc' = "reading"
  /\ wpc' = "open"
  /\ UNCHANGED << aggVars, inputVars, demuxVars, connOpened, connCloses, logCtxDone,
                  clientGone, wsConn, getLogsVars >>

\* h.logService.StreamLogs: ContainerLogs succeeds (the goroutine starts and the
\* channel is returned) or fails (the handler writes the error and returns)
WsStreamLogs(ok) ==
  /\ wpc = "open"
  /\ ok => ~logCtxDone
  /\ IF ok THEN /\ dpc' = "select"
                /\ wpc' = "await"
                /\ UNCHANGED wsConn
           ELSE /\ wpc' = "deferCancel"
                /\ \E taken \in BOOLEAN :
                      wsConn' = WriteError("failed to get container logs", taken)
                /\ UNCHANGED dpc
  /\ UNCHANGED << aggVars, inputVars, rpos, size, buf, sink, errChan, errChanClosed,
                  readerCloses, rdpc, connOpened, connCloses, logCtxDone, clientGone,
                  getLogsVars >>

\* select: case err := <-errChan (an error, or nil from the closed channel);
\* if err != nil && err != context.Canceled, the error is written to the socket
WsAwaitErrChan ==
  /\ wpc = "await"
  /\ errChan # << >> \/ errChanClosed
  /\ errChan' = IF errChan # << >> THEN Tail(errChan) ELSE errChan
  /\ wpc' = "deferCancel"
  /\ IF errChan # << >> /\ Head(errChan) # "context canceled"
       THEN \E taken \in BOOLEAN : wsConn' = WriteError(Head(errChan), taken)
       ELSE UNCHANGED wsConn
  /\ UNCHANGED << aggVars, inputVars, dpc, rpos, size, buf, sink, errChanClosed,
                  readerCloses, rdpc, connOpened, connCloses, logCtxDone, clientGone,
                  getLogsVars >>

\* WsAwaitCtxDone of a handler that tells the client of the cancellation
WsAwaitCtxDone_Notifies ==
  /\ wpc = "await"
  /\ logCtxDone
  /\ wpc' = "deferCancel"
  /\ \E taken \in BOOLEAN : wsConn' = WriteError("log streaming cancelled", taken)
  /\ UNCHANGED << aggVars, inputVars, demuxVars, rdpc, connOpened, connCloses, logCtxDone,
                  clientGone, getLogsVars >>

\* select: case <-ctx.Done()
WsAwaitCtxDone ==
  /\ wpc = "await"
  /\ logCtxDone
  /\ wpc' = "deferCancel"
  /\ UNCHANGED << aggVars, inputVars, demuxVars, rdpc, connOpened, connCloses, logCtxDone,
                  clientGone, wsConn, getLogsVars >>

\* the handler returns: the deferred cancel()
WsDeferCancel ==
  /\ wpc = "deferCancel"
  /\ logCtxDone' = TRUE
  /\ wpc' = "deferClose"
  /\ UNCHANGED << aggVars, inputVars, demuxVars, rdpc, connOpened, connCloses, clientGone,
                  wsConn, getLogsVars >>

\* the handler returns: the deferred conn.Close()
WsDeferClose ==
  /\ wpc = "deferClose"
  /\ connCloses' = connCloses + 1
  /\ wpc' = "returned"
  /\ UNCHANGED << aggVars, inputVars, demuxVars, rdpc, connOpened, logCtxDone, clientGone,
                  wsConn, getLogsVars >>

\* SocketReadError of a reader goroutine that returns without calling cancel()
SocketReadError_NoCancel ==
  /\ rdpc = "reading"
  /\ clientGone \/ connCloses > 0
  /\ rdpc' = "done"
  /\ UNCHANGED << aggVars, inputVars, demuxVars, wpc, connOpened, connCloses, logCtxDone,
                  clientGone, wsConn, getLogsVars >>

\* the reader goroutine: conn.ReadMessage returns an error (the client closed, or
\* the socket was closed under it): cancel() and return.  Messages that arrive
\* are read and dropped.
SocketReadError ==
  /\ rdpc = "reading"
  /\ clientGone \/ connCloses > 0
  /\ logCtxDone' = TRUE
  /\ rdpc' = "done"
  /\ UNCHANGED << aggVars, inputVars, demuxVars, wpc, connOpened, connCloses, clientGone,
                  wsConn, getLogsVars >>

\* the client closes its end of the socket
ClientClose ==
  /\ connOpened
  /\ connCloses = 0
  /\ ~clientGone
  /\ clientGone' = TRUE
  /\ UNCHANGED << aggVars, inputVars, demuxVars, wpc, rdpc, connOpened, connCloses,
                  logCtxDone, wsConn, getLogsVars >>

\* the request's context, parent of ctx, is cancelled
RequestCancel ==
  /\ wpc \in {"open", "await"}
  /\ ~logCtxDone
  /\ logCtxDone' = TRUE
  /\ UNCHANGED << aggVars, inputVars, demuxVars, wpc, rdpc, connOpened, connCloses,
                  clientGone, wsConn, getLogsVars >>

\* the log requests of the handler's runs: streams of a container that has ended
\* (daemonEnds) or is followed while it lives
LogRequests ==
  { << [ kind |-> 1, payload |-> << 65 >> ], [ kind |-> 1, payload |-> << >> ],
       [ kind |-> 2, payload |-> << 66, 65 >> ] >>,
    << [ kind |-> 2, payload |-> << 66, 65 >> ] >> }

\* where the daemon's stream may break off, counted back from the end of the last
\* frame (header 8 bytes, payload 2 bytes): nowhere, inside its payload, between
\* its header and its payload, inside its header
LogCuts == { 0, 1, 2, 5 }

\* GET /containers/:id/logs arrives
InitLogs ==
  /\ InitCache
  /\ InitSampleIdle
  /\ InitServicesIdle
  /\ logFrames \in LogRequests
  /\ \E cut \in LogCuts :
        logStream = SubSeq(Mux(logFrames), 1, Len(Mux(logFrames)) - cut)
  /\ daemonEnds \in BOOLEAN
  /\ InitDemux
  /\ InitGetLogsIdle
  /\ wpc = "upgrade"
  /\ rdpc = "none"
  /\ connOpened = FALSE
  /\ connCloses = 0
  /\ logCtxDone = FALSE
  /\ clientGone = FALSE
  /\ wsConn = NewConn

\* frames of both stream kinds: without payload, with one byte (the same byte on
\* stdout and on stderr), with two bytes
FrameSet ==
  { [ kind |-> 1, payload |-> << >> ],
    [ kind |-> 1, payload |-> << 65 >> ],
    [ kind |-> 2, payload |-> << 65 >> ],
    [ kind |-> 2, payload |-> << 66, 65 >> ] }

\* what the daemon may emit on one stream
FrameSeqs == UNION { [ 1..n -> FrameSet ] : n \in 0..MaxFrames }

\* LogService.StreamLogs has returned its channel: ContainerLogs succeeded, the
\* goroutine is at the top of its loop, the handler waits for the completion
StreamOpen ==
  /\ dpc = "select"
  /\ rpos = 0
  /\ size = 0
  /\ buf = << >>
  /\ sink = << >>
  /\ errChan = << >>
  /\ errChanClosed = FALSE
  /\ readerCloses = 0
  /\ wpc = "await"
  /\ rdpc = "reading"
  /\ connOpened = TRUE
  /\ connCloses = 0
  /\ logCtxDone = FALSE
  /\ clientGone = FALSE
  /\ wsConn = [ NewConn EXCEPT !.writeDeadline = "live" ]
  /\ InitGetLogsIdle

\* LogService.GetLogs is about to read the first header: ContainerLogs succeeded
GetLogsOpen ==
  /\ gpc = "header"
  /\ gpos = 0
  /\ gsize = 0
  /\ logResult = << >>
  /\ gerr = "none"
  /\ InitDemux
  /\ wpc = "none"
  /\ rdpc = "none"
  /\ connOpened = FALSE
  /\ connCloses = 0
  /\ logCtxDone = FALSE
  /\ clientGone = FALSE
  /\ wsConn = NewConn

\* a stream of a container that has ended: any frames, cut anywhere by the end of
\* the stream (a cut inside a frame leaves an incomplete frame)
InitDemuxInput ==
  /\ InitCache
  /\ InitSampleIdle
  /\ InitServicesIdle
  /\ logFrames \in FrameSeqs
  /\ \E cut \in 0..Len(Mux(logFrames)) : logStream = SubSeq(Mux(logFrames), 1, cut)
  /\ daemonEnds = TRUE
  /\ StreamOpen \/ GetLogsOpen

\* ------------------------------------------------------- log download
\* what inspect may report as the container's Name (the daemon puts one '/' in
\* front of a name), with the boundary cases of the test on the first byte
InspectNames ==
  { << "/", "w", "e", "b" >>, << "w", "e", "b" >>, << "/" >>, << >> }

\* wall-clock times << year, month, day, hour, minute, second >>
Times == { << 2024, 1, 5, 9, 7, 3 >>, << 2025, 12, 31, 23, 59, 58 >> }

\* the tail and timestamps parameters a download request may carry
Queries == [ tail : {"all", "100"}, timestamps : BOOLEAN ]

\* TrimName that leaves the name as inspect reports it
TrimName_KeepSlash(name) == name

\* if len(containerName) > 0 && containerName[0] == '/' { containerName = containerName[1:] }
TrimName(name) == IF Len(name) > 0 /\ name[1] = "/" THEN Tail(name) ELSE name

DigitChars == << "0", "1", "2", "3", "4", "5", "6", "7", "8", "9" >>

\* n in decimal, w digits, zero-padded
RECURSIVE Digits(_, _)
Digits(n, w) ==
  IF w = 0 THEN << >> ELSE Digits(n \div 10, w - 1) \o << DigitChars[(n % 10) + 1] >>

\* time.Format("20060102-150405")
Format(t) ==
  Digits(t[1], 4) \o Digits(t[2], 2) \o Digits(t[3], 2) \o << "-" >> \o
  Digits(t[4], 2) \o Digits(t[5], 2) \o Digits(t[6], 2)

\* fmt.Sprintf("%s_%s.log", containerName, timestamp)
Filename(containerName, timestamp) ==
  containerName \o << "_" >> \o timestamp \o << ".", "l", "o", "g" >>

\* LogHandler.DownloadLogs: the headers are set and CreateLogArchive is called with
\* the request's context, the container id and the response writer; the request's
\* tail and timestamps parameters are not read
DownloadLogs(q) ==
  /\ arc.pc = "none"
  /\ arc' = [ arc EXCEPT !.pc = "inspect", !.query = q ]
  /\ UNCHANGED << coreVars, logVars, zipWriter, healthVars, writeVars >>

\* s.dockerClient.ContainerInspect
ArcInspect(ok, name) ==
  /\ arc.pc = "inspect"
  /\ arc' = IF ok THEN [ arc EXCEPT !.pc = "containerLogs", !.containerName = name ]
                  ELSE [ arc EXCEPT !.pc = "returned", !.err = "failed to inspect container" ]
  /\ UNCHANGED << coreVars, logVars, zipWriter, healthVars, writeVars >>

\* s.GetLogs(ctx, containerID, LogStreamOptions{Timestamps: true, Tail: "all"}):
\* GetLogs copies Timestamps and Tail into the daemon's options, leaves Follow
\* unset and calls ContainerLogs
ArcContainerLogs(ok) ==
  /\ arc.pc = "containerLogs"
  /\ arc' = [ arc EXCEPT !.pc = "getLogs",
                         !.logOpts = Append(@, [ follow |-> FALSE, tail |-> "all",
                                                 timestamps |-> TRUE ]) ]
  /\ IF ok THEN /\ gpc' = "header"
                /\ UNCHANGED gerr
           ELSE /\ gpc' = "returned"
                /\ gerr' = "failed to get container logs"
  /\ UNCHANGED << coreVars, inputVars, demuxVars, socketVars, gpos, gsize, logResult,
                  zipWriter, healthVars, writeVars >>

\* ArcLogsReturned of a builder that made its zip.Writer and deferred its Close
\* before it read the logs: on an error the Close writes the archive's directory
ArcLogsReturned_ZipFirst ==
  /\ arc.pc = "getLogs"
  /\ gpc = "returned"
  /\ IF gerr = "nil"
       THEN /\ zipWriter' = [ zipWriter EXCEPT !.made = TRUE ]
            /\ arc' = [ arc EXCEPT !.pc = "create" ]
       ELSE /\ arc' = [ arc EXCEPT !.pc = "returned", !.err = "failed to get logs" ]
            /\ zipWriter' = [ zipWriter EXCEPT !.made = TRUE, !.closes = @ + 1 ]
  /\ UNCHANGED << coreVars, logVars, healthVars, writeVars >>

\* GetLogs has returned: its error is returned, or zip.NewWriter(writer) with the
\* deferred zipWriter.Close()
ArcLogsReturned ==
  /\ arc.pc = "getLogs"
  /\ gpc = "returned"
  /\ IF gerr = "nil"
       THEN /\ zipWriter' = [ zipWriter EXCEPT !.made = TRUE ]
            /\ arc' = [ arc EXCEPT !.pc = "create" ]
       ELSE /\ arc' = [ arc EXCEPT !.pc = "returned", !.err = "failed to get logs" ]
            /\ UNCHANGED zipWriter
  /\ UNCHANGED << coreVars, logVars, healthVars, writeVars >>

\* the name is trimmed, the time taken and formatted, zipWriter.Create(filename)
ArcCreate(ok, t) ==
  /\ arc.pc = "create"
  /\ IF ok
       THEN /\ zipWriter' =
                 [ zipWriter EXCEPT !.entries =
                     Append(@, [ name |-> Filename(TrimName(arc.containerName), Format(t)),
                                 content |-> << >> ]) ]
            /\ arc' = [ arc EXCEPT !.pc = "write", !.now = t ]
       ELSE /\ arc' = [ arc EXCEPT !.pc = "close", !.now = t,
                                   !.err = "failed to create zip entry" ]
            /\ UNCHANGED zipWriter
  /\ UNCHANGED << coreVars, logVars, healthVars, writeVars >>

\* fileWriter.Write([]byte(logs)); return nil
ArcWrite(ok) ==
  /\ arc.pc = "write"
  /\ IF ok
       THEN /\ zipWriter' =
                 [ zipWriter EXCEPT !.entries[Len(zipWriter.entries)].content = logResult ]
            /\ arc' = [ arc EXCEPT !.pc = "close", !.err = "nil" ]
       ELSE /\ arc' = [ arc EXCEPT !.pc = "close", !.err = "failed to write logs to zip" ]
            /\ UNCHANGED zipWriter
  /\ UNCHANGED << coreVars, logVars, healthVars, writeVars >>

\* the deferred zipWriter.Close() as CreateLogArchive returns
ArcClose ==
  /\ arc.pc = "close"
  /\ zipWriter' = [ zipWriter EXCEPT !.closes = @ + 1 ]
  /\ arc' = [ arc EXCEPT !.pc = "returned" ]
  /\ UNCHANGED << coreVars, logVars, healthVars, writeVars >>

\* a download request is about to arrive for a container whose log stream, not
\* followed, is any sequence of frames, whole or broken off in its last byte
InitArchive ==
  /\ InitCache
  /\ InitSampleIdle
  /\ InitArchiveIdle
  /\ InitHealthIdle
  /\ InitWriteIdle
  /\ logFrames \in FrameSeqs
  /\ \E cut \in {0, 1} :
        /\ cut <= Len(Mux(logFrames))
        /\ logStream = SubSeq(Mux(logFrames), 1, Len(Mux(logFrames)) - cut)
  /\ daemonEnds = TRUE
  /\ InitDemux
  /\ InitGetLogsIdle
  /\ wpc = "none"
  /\ rdpc = "none"
  /\ connOpened = FALSE
  /\ connCloses = 0
  /\ logCtxDone = FALSE
  /\ clientGone = FALSE
  /\ wsConn = NewConn

\* ------------------------------------------------------- health probe
\* the thresholds of the configuration (validate admits 0..100): the ones of the
\* spec's scenario and the lowest
HealthConfigs ==
  { [ CPUThreshold |-> 80, MemoryThreshold |-> 80 ],
    [ CPUThreshold |-> 0, MemoryThreshold |-> 0 ] }

\* what ContainerList(ListOptions{}) may return: the running containers, in order
HealthLists == { << >>, << 1 >>, << 1, 2 >> }

\* c.Names[0] of a listed container
ListedName(id) == << "/", "c" >>

\* one decoded stats response with the given cpu total (previous total 100, system
\* delta 1000, one cpu) and memory usage and limit
HealthSample(cpuTotal, usage, limit) ==
  [ cpuTotal |-> cpuTotal, preCpuTotal |-> 100, systemUsage |-> 2000, preSystemUsage |-> 1000,
    percpu |-> 1, usage |-> usage, limit |-> limit,
    networks |-> << [rx |-> 3, tx |-> 1] >>,
    blkio |-> << [op |-> "Read", value |-> 5] >> ]

\* the samples the daemon returns to the probe: cpu 90 %, mem 50 %; cpu 10 %, mem
\* 50 %; both at 80 %; an idle container (cpu 0 %, usage 0); containers without
\* memory accounting (limit 0), using memory and not
HealthSamples ==
  { HealthSample(1000, 512, 1024), HealthSample(200, 512, 1024), HealthSample(900, 80, 100),
    HealthSample(100, 0, 1024), HealthSample(100, 512, 0), HealthSample(100, 0, 0) }

\* a > b on float64: NaN compares false, +Inf is above every threshold
FloatGt(a, b) == a.kind = "+Inf" \/ (a.kind = "num" /\ a.val > b)

\* Classify with thresholds that are reached, not exceeded
Classify_AtLeast(cfg, cpuPercent, memoryPercent) ==
  IF cpuPercent >= cfg.CPUThreshold
     \/ memoryPercent.kind = "+Inf"
     \/ (memoryPercent.kind = "num" /\ memoryPercent.val >= cfg.MemoryThreshold)
    THEN "resource_critical" ELSE "healthy"

\* status := "healthy"; if cpuPercent > cfg.CPUThreshold || memoryPercent >
\* cfg.MemoryThreshold { status = "resource_critical" }
Classify(cfg, cpuPercent, memoryPercent) ==
  IF cpuPercent > cfg.CPUThreshold \/ FloatGt(memoryPercent, cfg.MemoryThreshold)
    THEN "resource_critical" ELSE "healthy"

\* the HealthCheckLog of a container whose stats call failed
ErrorLog(id, at) ==
  [ ContainerID |-> id, ContainerName |-> TrimName(ListedName(id)), Status |-> "error",
    ResourceCPU |-> 0, ResourceMemory |-> 0, ResourceMemoryLimit |-> 0,
    ResourceNetworkRx |-> 0, ResourceNetworkTx |-> 0,
    ErrorMessage |-> "stats call failed", CheckedAt |-> at ]

\* the HealthCheckLog of a container whose sample was decoded
SampleLog(id, cfg, statsData, at) ==
  [ ContainerID |-> id, ContainerName |-> TrimName(ListedName(id)),
    Status |-> Classify(cfg, CalculateCPUPercent(statsData),
                        FloatPercent(statsData.usage, statsData.limit)),
    ResourceCPU |-> CalculateCPUPercent(statsData),
    ResourceMemory |-> statsData.usage, ResourceMemoryLimit |-> statsData.limit,
    ResourceNetworkRx |-> GetNetworkRx(statsData),
    ResourceNetworkTx |-> GetNetworkTx(statsData),
    ErrorMessage |-> "", CheckedAt |-> at ]

\* <-ticker.C
HealthTick ==
  /\ health.pc = "wait"
  /\ health.tick < MaxHealthTicks
  /\ health' = [ health EXCEPT !.pc = "list", !.tick = @ + 1, !.listed = << >> ]
  /\ UNCHANGED << coreVars, logVars, archiveVars, healthLogs, writeVars >>

\* dockerClient.ContainerList fails: the tick is skipped
HealthListFail ==
  /\ health.pc = "list"
  /\ health' = [ health EXCEPT !.pc = "wait" ]
  /\ UNCHANGED << coreVars, logVars, archiveVars, healthLogs, writeVars >>

\* dockerClient.ContainerList returns cs: checkContainer is called for each in turn
HealthListOk(cs) ==
  /\ health.pc = "list"
  /\ health' = [ health EXCEPT !.pc = IF cs = << >> THEN "wait" ELSE "stats",
                               !.listed = cs, !.queue = cs ]
  /\ UNCHANGED << coreVars, logVars, archiveVars, healthLogs, writeVars >>

\* checkContainer returns: the next container of the range, or the next tick
AfterCheck == [ health EXCEPT !.pc = IF Len(health.queue) > 1 THEN "stats" ELSE "wait",
                              !.queue = Tail(health.queue) ]

\* checkContainer: dockerClient.ContainerStats fails; the error record is created
\* and handed to repo.Create
HealthStatsFail ==
  /\ health.pc = "stats"
  /\ healthLogs' = Append(healthLogs, ErrorLog(Head(health.queue), health.tick))
  /\ health' = AfterCheck
  /\ UNCHANGED << coreVars, logVars, archiveVars, writeVars >>

\* checkContainer: dockerClient.ContainerStats returns a response
HealthStatsOk ==
  /\ health.pc = "stats"
  /\ health' = [ health EXCEPT !.pc = "decode" ]
  /\ UNCHANGED << coreVars, logVars, archiveVars, healthLogs, writeVars >>

\* checkContainer: decoding the body fails; it logs and returns
HealthDecodeFail ==
  /\ health.pc = "decode"
  /\ health' = AfterCheck
  /\ UNCHANGED << coreVars, logVars, archiveVars, healthLogs, writeVars >>

\* checkContainer: the body decodes to statsData; the percentages are computed,
\* the status is determined, the record is created and handed to repo.Create
HealthDecodeOk(statsData) ==
  /\ health.pc = "decode"
  /\ healthLogs' = Append(healthLogs, SampleLog(Head(health.queue), health.cfg, statsData,
                                                 health.tick))
  /\ health' = AfterCheck
  /\ UNCHANGED << coreVars, logVars, archiveVars, writeVars >>

\* the server has started its health checker with any admitted thresholds
InitHealth ==
  /\ InitCache
  /\ InitSampleIdle
  /\ InitLogIdle
  /\ InitArchiveIdle
  /\ \E cfg \in HealthConfigs : health = HealthStart(cfg)
  /\ healthLogs = << >>
  /\ InitWriteIdle

\* ---------------------------------------- mutating operations and journal
\* start, stop, restart and remove of ContainerService
OpKinds == { "start", "stop", "restart", "remove" }

\* the operations that have a bulk form
BulkKinds == { "start", "stop", "remove" }

\* the container_ids of a bulk request: any list of at most MaxBulkIds ids, with
\* repetitions, of two containers
BulkLists == UNION { [ 1..n -> {1, 2} ] : n \in 0..MaxBulkIds }

\* the kinds of the bulk request that is served beside a handler's request (the
\* kinds differ in the daemon call alone)
JournalBulkKinds == { "stop", "remove" }

\* the shorter lists of the bulk request that is served beside a handler's request
JournalLists == UNION { [ 1..n -> {1, 2} ] : n \in 0..MaxJournalIds }

\* the operation a handler of one container is asked for: the one without bulk form
HandlerKinds == OpKinds \ BulkKinds

\* containerJSON.Name of an inspected container
InspectedName(id) == "/c"

\* error strings of the daemon: of ContainerInspect, of the mutating call
NoSuchContainer == "No such container"
Conflict == "conflict"

\* s.StartContainer(ctx, containerID) and its like are entered: ContainerInspect
\* is called first
OpCall(kind, id) == [ NoOp EXCEPT !.pc = "inspect", !.kind = kind, !.id = id ]

\* a handler of one container calls the operation of its route (container 1)
HandlerRequest(kind) ==
  /\ svc.ops["handler"].pc = "idle"
  /\ svc' = [ svc EXCEPT !.ops["handler"] = OpCall(kind, 1) ]
  /\ UNCHANGED << coreVars, logVars, archiveVars, healthVars, actionLogs >>

\* the inspect of an operation fails and the operation returns without journal
OpInspect_NoJournal(c, ok) ==
  /\ svc.ops[c].pc = "inspect"
  /\ svc' = IF ok
              THEN [ svc EXCEPT !.ops[c].pc = "daemon", !.ops[c].name = InspectedName(svc.ops[c].id) ]
              ELSE [ svc EXCEPT !.ops[c].pc = "returned", !.ops[c].err = NoSuchContainer ]
  /\ UNCHANGED << coreVars, logVars, archiveVars, healthVars, actionLogs >>

\* containerJSON, err := ContainerInspect: on error logAction(kind, "container",
\* id, "", false, err) is called, else the mutating call is made
OpInspect(c, ok) ==
  /\ svc.ops[c].pc = "inspect"
  /\ svc' = IF ok
              THEN [ svc EXCEPT !.ops[c].pc = "daemon", !.ops[c].name = InspectedName(svc.ops[c].id) ]
              ELSE [ svc EXCEPT !.ops[c].pc = "log", !.ops[c].success = FALSE,
                                !.ops[c].err = NoSuchContainer ]
  /\ UNCHANGED << coreVars, logVars, archiveVars, healthVars, actionLogs >>

\* err = ContainerStart / ContainerStop / ContainerRestart / ContainerRemove:
\* logAction is called with (false, err) or (true, nil)
OpDaemon(c, ok) ==
  /\ svc.ops[c].pc = "daemon"
  /\ svc' = [ svc EXCEPT !.ops[c].pc = "log", !.ops[c].success = ok,
                         !.ops[c].err = IF ok THEN "nil" ELSE Conflict ]
  /\ UNCHANGED << coreVars, logVars, archiveVars, healthVars, actionLogs >>

\* the ActionLog logAction builds from its arguments
ActionLog(f) ==
  [ ActionType |-> f.kind, ResourceType |-> "container", ResourceID |-> f.id,
    ResourceName |-> f.name, Success |-> f.success,
    ErrorMessage |-> IF f.err # "nil" THEN f.err ELSE "" ]

\* the error of a failed INSERT into action_logs
JournalError == "database is locked"

\* logAction that returns the journal's error when the record cannot be stored
logAction_ReturnsLogErr(c, created) ==
  /\ svc.ops[c].pc = "log"
  /\ actionLogs' = Append(actionLogs, ActionLog(svc.ops[c]))
  /\ svc' = [ svc EXCEPT !.ops[c].pc = "returned", !.ops[c].logErr = ~created,
                         !.ops[c].err = IF created THEN @ ELSE JournalError ]
  /\ UNCHANGED << coreVars, logVars, archiveVars, healthVars >>

\* logAction: the record is handed to actionLogRepo.Create, whose error (logErr)
\* is only logged, and err is returned as it came
logAction(c, created) ==
  /\ svc.ops[c].pc = "log"
  /\ actionLogs' = Append(actionLogs, ActionLog(svc.ops[c]))
  /\ svc' = [ svc EXCEPT !.ops[c].pc = "returned", !.ops[c].logErr = ~created ]
  /\ UNCHANGED << coreVars, logVars, archiveVars, healthVars >>

\* the handler answers 500 with the error as detail, or 200; it has the returned
\* error and nothing else of the call
HandlerRespond ==
  /\ svc.ops["handler"].pc = "returned"
  /\ svc' = [ svc EXCEPT !.ops["handler"].pc = "responded",
                         !.ops["handler"].logErr = FALSE,
                         !.ops["handler"].status =
                            IF svc.ops["handler"].err # "nil" THEN 500 ELSE 200 ]
  /\ UNCHANGED << coreVars, logVars, archiveVars, healthVars, actionLogs >>

\* for i, containerID := range containerIDs { result := BulkOperationResult{
\* ContainerID: containerID }; ContainerInspect ... }, or the loop is over
BulkAt(b, i) ==
  IF i <= Len(b.ids)
    THEN [ b EXCEPT !.pc = "inspect", !.i = i,
                    !.result = [ ZeroResult EXCEPT !.ContainerID = b.ids[i] ] ]
    ELSE [ b EXCEPT !.pc = "respond", !.i = i ]

\* a bulk handler has bound container_ids and calls Bulk<Kind>Containers:
\* results := make([]BulkOperationResult, len(containerIDs))
BulkRequest(kind, ids) ==
  /\ svc.bulk.pc = "idle"
  /\ svc' = [ svc EXCEPT !.bulk = BulkAt([ NoBulk EXCEPT !.kind = kind, !.ids = ids,
                                            !.results = [ j \in 1..Len(ids) |-> ZeroResult ] ],
                                          1) ]
  /\ UNCHANGED << coreVars, logVars, archiveVars, healthVars, actionLogs >>

\* containerJSON, err := ContainerInspect; if err == nil { result.ContainerName =
\* containerJSON.Name }
BulkInspect(ok) ==
  /\ svc.bulk.pc = "inspect"
  /\ svc' = [ svc EXCEPT !.bulk.pc = "call",
                         !.bulk.result.ContainerName =
                            IF ok THEN InspectedName(svc.bulk.ids[svc.bulk.i]) ELSE "" ]
  /\ UNCHANGED << coreVars, logVars, archiveVars, healthVars, actionLogs >>

\* the operation is started and the loop goes on to the next id at once
BulkCall_Async ==
  /\ svc.bulk.pc = "call"
  /\ svc.ops["bulk"].pc = "idle"
  /\ svc' = [ svc EXCEPT !.ops["bulk"] = OpCall(svc.bulk.kind, svc.bulk.ids[svc.bulk.i]),
                         !.bulk = BulkAt(svc.bulk, svc.bulk.i + 1) ]
  /\ UNCHANGED << coreVars, logVars, archiveVars, healthVars, actionLogs >>

\* err = s.StartContainer(ctx, containerID) (or Stop, Remove): the loop waits for
\* its return
BulkCall ==
  /\ svc.bulk.pc = "call"
  /\ svc.ops["bulk"].pc = "idle"
  /\ svc' = [ svc EXCEPT !.ops["bulk"] = OpCall(svc.bulk.kind, svc.bulk.ids[svc.bulk.i]),
                         !.bulk.pc = "await" ]
  /\ UNCHANGED << coreVars, logVars, archiveVars, healthVars, actionLogs >>

\* result with Success and Error set from the returned err
Outcome(result, err) ==
  IF err # "nil" THEN [ result EXCEPT !.Success = FALSE, !.Error = err ]
                 ELSE [ result EXCEPT !.Success = TRUE ]

\* the loop ends at the first id that fails
BulkRecord_StopOnError ==
  /\ svc.bulk.pc = "await"
  /\ svc.ops["bulk"].pc = "returned"
  /\ LET b == [ svc.bulk EXCEPT
                  !.results[svc.bulk.i] = Outcome(svc.bulk.result, svc.ops["bulk"].err) ]
     IN svc' = [ svc EXCEPT !.ops["bulk"] = NoOp,
                            !.bulk = IF svc.ops["bulk"].err # "nil"
                                       THEN [ b EXCEPT !.pc = "respond" ]
                                       ELSE BulkAt(b, svc.bulk.i + 1) ]
  /\ UNCHANGED << coreVars, logVars, archiveVars, healthVars, actionLogs >>

\* the operation has returned err: result.Success and result.Error are set,
\* results[i] = result, and the range goes on
BulkRecord ==
  /\ svc.bulk.pc = "await"
  /\ svc.ops["bulk"].pc = "returned"
  /\ LET b == [ svc.bulk EXCEPT
                  !.results[svc.bulk.i] = Outcome(svc.bulk.result, svc.ops["bulk"].err) ]
     IN svc' = [ svc EXCEPT !.ops["bulk"] = NoOp, !.bulk = BulkAt(b, svc.bulk.i + 1) ]
  /\ UNCHANGED << coreVars, logVars, archiveVars, healthVars, actionLogs >>

RECURSIVE countSuccessful(_)
\* count := 0; for _, r := range results { if r.Success { count++ } }
countSuccessful(results) ==
  IF results = << >> THEN 0
  ELSE (IF Head(results).Success THEN 1 ELSE 0) + countSuccessful(Tail(results))

RECURSIVE countFailed(_)
\* count := 0; for _, r := range results { if !r.Success { count++ } }
countFailed(results) ==
  IF results = << >> THEN 0
  ELSE (IF ~Head(results).Success THEN 1 ELSE 0) + countFailed(Tail(results))

\* the bulk handler answers 200 with results, total, success and failed
BulkRespond ==
  /\ svc.bulk.pc = "respond"
  /\ svc' = [ svc EXCEPT !.bulk.pc = "done",
                         !.bulk.response = [ total |-> Len(svc.bulk.ids),
                                             success |-> countSuccessful(svc.bulk.results),
                                             failed |-> countFailed(svc.bulk.results) ] ]
  /\ UNCHANGED << coreVars, logVars, archiveVars, healthVars, actionLogs >>

\* the server is up and no mutating request has arrived
InitWrites ==
  /\ InitCache
  /\ InitSampleIdle
  /\ InitLogIdle
  /\ InitServicesIdle

\* ------------------------------------------------- one sampler call alone
\* counter values the daemon may report: zero, two ordinary values, the largest
CounterValues == { 0, 100, 200, UMod - 1 }

\* the interfaces and block-io entries of a response: one interface and one entry,
\* or two interfaces and entries whose op is spelled in every way the daemon or a
\* proxy may spell it
IoInputs ==
  { [ networks |-> << [rx |-> 3, tx |-> 1] >>,
      blkio |-> << [op |-> "Read", value |-> 5] >> ],
    [ networks |-> << [rx |-> 3, tx |-> 1], [rx |-> 4, tx |-> 2] >>,
      blkio |-> << [op |-> "READ", value |-> 7], [op |-> "read", value |-> 1],
                   [op |-> "Write", value |-> 2], [op |-> "WRITE", value |-> 8],
                   [op |-> "Sync", value |-> 9] >> ] }

\* decoded stats responses: every combination of current and previous counters,
\* cpu counts, memory usage and limit (a limit of 0 is what the daemon reports
\* for a container without memory accounting)
SampleInputs ==
  { [ cpuTotal |-> ct, preCpuTotal |-> pct, systemUsage |-> su, preSystemUsage |-> psu,
      percpu |-> n, usage |-> u, limit |-> l,
      networks |-> io.networks, blkio |-> io.blkio ] :
    ct \in CounterValues, pct \in CounterValues, su \in {1000, 2000}, psu \in {1000, 2000},
    n \in {0, 2}, u \in {0, 512}, l \in {0, 1024}, io \in IoInputs }

\* a sampler call whose daemon call and decoding succeeded with any of the inputs
InitSampler ==
  /\ InitCache
  /\ InitLogIdle
  /\ InitServicesIdle
  /\ statsJSON \in SampleInputs
  /\ stats = NoValue

\* getContainerStats computes and returns the ContainerStats
SampleContainer ==
  /\ statsJSON # NoValue
  /\ stats = NoValue
  /\ stats' = getContainerStats(statsJSON)
  /\ UNCHANGED << cacheVars, mu, refreshVars, clientVars, stopVars, statsJSON, logVars,
                  serviceVars >>

\* --------------------------------------------------------- specifications
\* the running sets the daemon reports: at most MaxRunning containers
RunningSets == { cs \in SUBSET Ids : Cardinality(cs) <= MaxRunning }

\* the running sets of the specifications with a client: at most one container
SingleRunningSets == { cs \in SUBSET Ids : Cardinality(cs) <= 1 }

\* the running sets a list request of the client sees
ListRequestSets == { {}, {1}, Ids }

RefreshSteps ==
  \/ LoopInitialRefresh
  \/ LoopTick
  \/ BudgetExpire
  \/ ListFail
  \/ \E id \in Ids : \E raw \in RawSamples : SamplerOk(id, raw)
  \/ \E id \in Ids : SamplerErr(id)
  \/ \E id \in Ids : SamplerCancelled(id)
  \/ CloseChan
  \/ Collect
  \/ CollectDone
  \/ PublishLock
  \/ PublishMap
  \/ PublishSummary
  \/ PublishUnlock

GetterSteps ==
  \/ GetterRLock
  \/ GetterCopy

RequestSteps ==
  \/ \E id \in Ids : CacheGetContainerStats(id)
  \/ \E rc \in ListRequestSets : \E includeStats \in BOOLEAN : HttpListContainers(rc, includeStats)
  \/ HttpDashboardSummary

\* the aggregator alone
NextAgg ==
  \/ RefreshSteps
  \/ \E cs \in RunningSets : ListOk(cs)

SpecAgg == Init /\ [][NextAgg]_vars

\* the aggregator and a client whose requests are independent of each other
Next ==
  \/ RefreshSteps
  \/ \E cs \in SingleRunningSets : ListOk(cs)
  \/ GetterSteps
  \/ GetterReturn
  \/ RequestSteps
  \/ \E id \in Ids : \E running \in BOOLEAN : HttpGetContainer(id, running)
  \/ HttpGetContainerStats

Spec == Init /\ [][Next]_vars

\* the aggregator and a caller that keeps what its getter calls returned
NextCaller ==
  \/ RefreshSteps
  \/ \E cs \in SingleRunningSets : ListOk(cs)
  \/ GetterSteps
  \/ GetterReturnKeep
  \/ RequestSteps
  \/ CallerForget

SpecCaller == Init /\ [][NextCaller]_vars

\* the aggregator and a caller that reads the summary again and again and keeps
\* what it was handed
NextSummary ==
  \/ RefreshSteps
  \/ \E cs \in SingleRunningSets : ListOk(cs)
  \/ GetterSteps
  \/ GetterReturnKeep
  \/ HttpDashboardSummary

SpecSummary == Init /\ [][NextSummary]_vars

\* the running sets of the specification with a writing caller, and the keys the
\* caller writes: one it may have been handed, one it was not
ReaderRunningSets == { {}, {1} }
ReaderKeys == {1, 2}

\* the aggregator and a caller that keeps the map and the summary its getter
\* calls returned and writes to them
NextReader ==
  \/ RefreshSteps
  \/ \E cs \in ReaderRunningSets : ListOk(cs)
  \/ GetterSteps
  \/ GetterReturnKeep
  \/ HttpListContainers(Ids, TRUE)
  \/ HttpDashboardSummary
  \/ \E edit \in {"delete", "put"} : \E id \in ReaderKeys : CallerEditMap(edit, id)
  \/ CallerEditSummary

SpecReader == Init /\ [][NextReader]_vars

\* the aggregator alone on a daemon that runs nothing, container 1, or containers
\* 1 and 2, with the scheduling the runtime guarantees: time passes (the deadline
\* of a live context is reached), a cancelled daemon call returns, and every
\* goroutine that can run does run.  Nothing is assumed of the daemon's answers.
FairRunningSets == { {}, {1}, {1, 2} }

NextFair ==
  \/ RefreshSteps
  \/ \E cs \in FairRunningSets : ListOk(cs)

FairAgg ==
  /\ Init
  /\ [][NextFair]_vars
  /\ WF_vars(BudgetExpire)
  /\ WF_vars(\E id \in Ids : SamplerCancelled(id))
  /\ WF_vars(CloseChan)
  /\ WF_vars(Collect)
  /\ WF_vars(CollectDone)
  /\ WF_vars(PublishLock)
  /\ WF_vars(PublishMap)
  /\ WF_vars(PublishSummary)
  /\ WF_vars(PublishUnlock)

\* the aggregator on the daemon of FairAgg, with an owner that may call Stop at
\* any time and any number of times
NextStop ==
  \/ RefreshSteps
  \/ \E cs \in FairRunningSets : ListOk(cs)
  \/ Stop
  \/ TickerFire
  \/ LoopExit

SpecStop == Init /\ [][NextStop]_vars

\* the two demultiplexing loops, each alone on its stream: the goroutine of
\* LogService.StreamLogs on a writer that accepts every chunk and a context that
\* stays live, and LogService.GetLogs
NextDemux ==
  \/ StreamSelect
  \/ StreamReadHeader
  \/ StreamReadPayload
  \/ StreamWriteOk
  \/ StreamCloseReader
  \/ StreamCloseErrChan
  \/ GetLogsReadHeader
  \/ GetLogsReadPayload

SpecDemux == InitDemuxInput /\ [][NextDemux]_vars

\* one WebSocket log subscription: the handler, its socket reader, the streaming
\* goroutine, the client and the request's context.  The runtime schedules every
\* goroutine that can run, a read cut by a cancelled context returns, and a write
\* returns (done or failed) within its 10 s deadline.
NextLogs ==
  \/ \E ok \in BOOLEAN : WsUpgrade(ok)
  \/ \E ok \in BOOLEAN : WsWelcome(ok)
  \/ WsSpawnReader
  \/ \E ok \in BOOLEAN : WsStreamLogs(ok)
  \/ WsAwaitErrChan
  \/ WsAwaitCtxDone
  \/ WsDeferCancel
  \/ WsDeferClose
  \/ SocketReadError
  \/ ClientClose
  \/ RequestCancel
  \/ DeadlinePass
  \/ StreamSelect
  \/ StreamReadHeader
  \/ StreamReadPayload
  \/ StreamReadCancelled
  \/ StreamWriteOk
  \/ StreamWriteFail
  \/ StreamCloseReader
  \/ StreamCloseErrChan

SpecLogs ==
  /\ InitLogs
  /\ [][NextLogs]_vars
  /\ WF_vars(\E ok \in BOOLEAN : WsUpgrade(ok))
  /\ WF_vars(\E ok \in BOOLEAN : WsWelcome(ok))
  /\ WF_vars(WsSpawnReader)
  /\ WF_vars(\E ok \in BOOLEAN : WsStreamLogs(ok))
  /\ WF_vars(WsAwaitErrChan \/ WsAwaitCtxDone)
  /\ WF_vars(WsDeferCancel)
  /\ WF_vars(WsDeferClose)
  /\ WF_vars(SocketReadError)
  /\ WF_vars(StreamSelect)
  /\ WF_vars(StreamReadHeader \/ StreamReadPayload \/ StreamReadCancelled)
  /\ WF_vars(StreamWriteOk \/ StreamWriteFail)
  /\ WF_vars(StreamCloseReader)
  /\ WF_vars(StreamCloseErrChan)

\* one download request: the handler, CreateLogArchive and the GetLogs it calls
NextArchive ==
  \/ \E q \in Queries : DownloadLogs(q)
  \/ \E ok \in BOOLEAN : \E name \in InspectNames : ArcInspect(ok, name)
  \/ \E ok \in BOOLEAN : ArcContainerLogs(ok)
  \/ GetLogsReadHeader
  \/ GetLogsReadPayload
  \/ ArcLogsReturned
  \/ \E ok \in BOOLEAN : \E t \in Times : ArcCreate(ok, t)
  \/ \E ok \in BOOLEAN : ArcWrite(ok)
  \/ ArcClose

SpecArchive == InitArchive /\ [][NextArchive]_vars

\* the health checker alone
NextHealth ==
  \/ HealthTick
  \/ HealthListFail
  \/ \E cs \in HealthLists : HealthListOk(cs)
  \/ HealthStatsFail
  \/ HealthStatsOk
  \/ HealthDecodeFail
  \/ \E statsData \in HealthSamples : HealthDecodeOk(statsData)

SpecHealth == InitHealth /\ [][NextHealth]_vars

\* one bulk request served alone
NextBulk ==
  \/ \E kind \in BulkKinds : \E ids \in BulkLists : BulkRequest(kind, ids)
  \/ \E ok \in BOOLEAN : BulkInspect(ok)
  \/ BulkCall
  \/ \E ok \in BOOLEAN : OpInspect("bulk", ok)
  \/ \E ok \in BOOLEAN : OpDaemon("bulk", ok)
  \/ \E created \in BOOLEAN : logAction("bulk", created)
  \/ BulkRecord
  \/ BulkRespond

SpecBulk == InitWrites /\ [][NextBulk]_vars

\* one request for one container and one bulk request, served concurrently
NextWrites ==
  \/ \E kind \in HandlerKinds : HandlerRequest(kind)
  \/ \E c \in Callers : \E ok \in BOOLEAN : OpInspect(c, ok)
  \/ \E c \in Callers : \E ok \in BOOLEAN : OpDaemon(c, ok)
  \/ \E c \in Callers : \E created \in BOOLEAN : logAction(c, created)
  \/ HandlerRespond
  \/ \E kind \in JournalBulkKinds : \E ids \in JournalLists : BulkRequest(kind, ids)
  \/ \E ok \in BOOLEAN : BulkInspect(ok)
  \/ BulkCall
  \/ BulkRecord
  \/ BulkRespond

SpecWrites == InitWrites /\ [][NextWrites]_vars

\* one call of getContainerStats on each input
NextSampler == SampleContainer

SpecSampler == InitSampler /\ [][NextSampler]_vars

\* ------------------------------------------------------------- properties
\* the ids of this refresh whose sampler succeeded
OkSet == { i \in containers : sampler[i] = "ok" }

\* the sum of field f over the entries of map m
RECURSIVE SumOver(_, _)
SumOver(m, f) ==
  IF DOMAIN m = {} THEN 0
  ELSE LET i == CHOOSE x \in DOMAIN m : TRUE
       IN m[i][f] + SumOver([ j \in (DOMAIN m) \ {i} |-> m[j] ], f)

\* C1: whenever a reader can hold the cache (no writer holds the lock), the stored
\* map and the stored summary were assigned by the same refresh, the last one that
\* completed its publication (or both by the constructor), and they are the whole
\* map and summary that refresh built; a reader never holds the lock together with
\* the writer.
C1_AtomicPublication ==
  /\ (hpc \in {"rlocked", "copied"}) => (mu.readers > 0 /\ ~mu.writer)
  /\ ~mu.writer =>
       /\ mapGen = sumGen
       /\ mapGen = swaps
       /\ (swaps = 0) => (containerStats = EmptyMap /\ dashboardSummary = Nil)
       /\ (swaps > 0 /\ swaps = tick) => (containerStats = newStats /\ dashboardSummary = summary)

\* C1 witness: a reader holds the read lock on the snapshot of tick 1 while the
\* refresh of tick 2 waits to publish a different one.
C1_Witness ==
  /\ hpc = "rlocked"
  /\ pc = "lock"
  /\ tick = 2
  /\ mapGen = 1
  /\ sumGen = 1
  /\ containerStats # newStats

\* C2 (as claimed): a caller that has read the map and then the summary holds a
\* summary whose container_count is the number of keys of the map it read.
C2_CallerSeesConsistentPair ==
  (kept.stats.kind = "stats" /\ kept.summary.kind = "summary") =>
     kept.summary.v.ContainerCount = Cardinality(DOMAIN kept.stats.v)

\* C3: whenever no publication is in progress, the stored summary (nil read as
\* zero) is the aggregate of the stored entries: count of keys, and sums of cpu
\* percent, memory usage, memory limit, network rx and tx.
C3_SummaryAggregatesEntries ==
  ~mu.writer =>
    LET s == GetDashboardSummary.v
    IN /\ s.ContainerCount = Cardinality(DOMAIN containerStats)
       /\ s.TotalCPUPercent = SumOver(containerStats, "CPUPercent")
       /\ s.TotalMemoryUsage = SumOver(containerStats, "MemoryUsage")
       /\ s.TotalMemoryLimit = SumOver(containerStats, "MemoryLimit")
       /\ s.TotalNetworkRx = SumOver(containerStats, "NetworkRx")
       /\ s.TotalNetworkTx = SumOver(containerStats, "NetworkTx")

\* C3 witness: a published snapshot of two entries with different samples.
C3_Witness ==
  /\ pc = "wait"
  /\ swaps = tick
  /\ Cardinality(DOMAIN containerStats) = 2
  /\ dashboardSummary # Nil
  /\ dashboardSummary.TotalCPUPercent = 60
  /\ dashboardSummary.TotalMemoryLimit = 1424

\* C4: the snapshot a refresh published has no key outside the running set that
\* refresh listed, so no key of the replaced map whose container left the running
\* set survives; when every sampler succeeded its keys are exactly the running set
\* and container_count is its size.
C4_NoStaleEntries ==
  (tick > 0 /\ mapGen = tick /\ sumGen = tick) =>
     /\ DOMAIN containerStats \subseteq containers
     /\ (replaced \ containers) \cap (DOMAIN containerStats) = {}
     /\ (\A i \in containers : sampler[i] = "ok") =>
          /\ DOMAIN containerStats = containers
          /\ dashboardSummary.ContainerCount = Cardinality(containers)

\* C4 witness: tick 1 published {1,2}; tick 2 listed {1,3} and published keys {1,3}.
C4_Witness ==
  /\ pc = "wait"
  /\ tick = 2
  /\ swaps = 2
  /\ replaced = {1, 2}
  /\ containers = {1, 3}
  /\ DOMAIN containerStats = {1, 3}
  /\ dashboardSummary.ContainerCount = 2

\* C5: a refresh that spawned samplers always publishes before it returns, whatever
\* the samplers' outcomes: what it publishes has exactly the ids whose sampler
\* succeeded, and the empty snapshot with a zero summary when none did; it then is
\* back in the loop waiting for the next tick.
C5_SamplerErrorsSkipped ==
  /\ (listResult = "some" /\ pc \in {"lock", "assignMap", "assignSummary", "unlock"}) =>
        DOMAIN newStats = OkSet
  /\ (listResult = "some" /\ pc = "wait") =>
        /\ swaps = tick
        /\ DOMAIN containerStats = OkSet
        /\ dashboardSummary # Nil
        /\ dashboardSummary.ContainerCount = Cardinality(OkSet)
        /\ (OkSet = {}) => (containerStats = EmptyMap /\ dashboardSummary = ZeroSummary)

\* C5 witness: every sampler of tick 2 failed; the non-empty snapshot of tick 1 was
\* replaced by the empty one and the loop waits for the next tick.
C5_Witness ==
  /\ pc = "wait"
  /\ tick = 2
  /\ listResult = "some"
  /\ \A i \in containers : sampler[i] = "failed"
  /\ replaced # {}
  /\ containerStats = EmptyMap
  /\ dashboardSummary = ZeroSummary

\* C6: a refresh whose list is empty goes on to publish, and once it has returned
\* to the loop the stored map is empty and the stored summary is all zero.
C6_EmptyListPublishesEmpty ==
  /\ (listResult = "empty") => pc \in {"lock", "assignMap", "assignSummary", "unlock", "wait"}
  /\ (listResult = "empty" /\ pc = "wait") =>
        /\ swaps = tick
        /\ containerStats = EmptyMap
        /\ dashboardSummary = ZeroSummary

\* C6 witness: tick 2 found nothing running; the entries of tick 1 are gone.
C6_Witness ==
  /\ pc = "wait"
  /\ listResult = "empty"
  /\ replaced # {}
  /\ containerStats = EmptyMap
  /\ dashboardSummary = ZeroSummary

\* C7: a sampler cut by the expiry of the budget never contributes an entry, and
\* every refresh that spawned samplers goes on to publish whatever the daemon does
\* (the daemon may never answer): its publication has exactly the ids sampled
\* before the expiry.
C7_BudgetExpiryStillPublishes ==
  /\ [](\A i \in Ids : sampler[i] = "cancelled" =>
          /\ expired
          /\ i \notin DOMAIN newStats
          /\ (mapGen = tick => i \notin DOMAIN containerStats))
  /\ [](listResult = "some" /\ swaps = tick => DOMAIN containerStats = OkSet)
  /\ \A t \in 1..MaxTicks : (pc = "collect" /\ tick = t) ~> (swaps = t)

\* C7 witness: the budget expired with one sampler done and one outstanding; the
\* snapshot was published with the one entry.
C7_Witness ==
  \E i, j \in Ids :
     /\ sampler[i] = "cancelled"
     /\ sampler[j] = "ok"
     /\ pc = "wait"
     /\ swaps = tick
     /\ DOMAIN containerStats = {j}
     /\ dashboardSummary.ContainerCount = 1

\* C8: the value a getter copies under the read lock comes from the last refresh
\* that completed its publication, and is the stored field itself.
C8_ReadSeesLastSwap ==
  (hpc = "copied") =>
     /\ hGen = swaps
     /\ hop = "list" => hVal.v = containerStats
     /\ hop = "summary" => (swaps > 0 => hVal.v = dashboardSummary)
     /\ hop = "one" => (hArg \in DOMAIN containerStats => hVal.v = containerStats[hArg])

\* C8 witness: a summary read after the second swap returns the second summary.
C8_Witness ==
  /\ hpc = "copied"
  /\ hop = "summary"
  /\ swaps = 2
  /\ hGen = 2
  /\ replaced # DOMAIN containerStats

\* C9: the refresher holds the lock only in its three publication steps, with no
\* daemon call (list or sampler) in flight; a reader holds the read lock only inside
\* a getter; and a getter that runs before the first publication returns the empty
\* map, a zero summary that is not nil, or no entry.
C9_LockNeverAcrossDaemonCall ==
  /\ mu.writer =>
       /\ pc \in {"assignMap", "assignSummary", "unlock"}
       /\ \A i \in Ids : sampler[i] # "running"
  /\ (mu.readers > 0) => hpc \in {"rlocked", "copied"}
  /\ (hpc = "copied" /\ swaps = 0) =>
       \/ hVal = [kind |-> "stats", v |-> EmptyMap]
       \/ hVal = [kind |-> "summary", v |-> ZeroSummary]
       \/ hVal = [kind |-> "one", v |-> Nil]

\* C9 witness: a reader waits for the read lock while the refresher is between its
\* two assignments.
C9_Witness ==
  /\ mu.writer
  /\ pc = "assignSummary"
  /\ hpc = "getter"
  /\ hop = "summary"

\* C10 (as claimed): no daemon stats call is ever issued on behalf of an HTTP read.
C10_HttpReadsNeverSample == httpStatsCalls = 0

\* C11 (as claimed): stop() is idempotent (once the context is cancelled it stays
\* cancelled and a later call changes nothing), and once stop() has been called the
\* loop, at a tick boundary or past it, begins no further refresh and, having
\* exited, stays exited.
C11_StopEndsLoop ==
  [][ /\ (ctxDone => ctxDone')
      /\ ((ctxDone /\ pc \in {"wait", "exited"}) => tick' = tick)
      /\ (pc = "exited" => pc' = "exited") ]_vars

\* C12 (as claimed): once stop() has been called, the daemon call of a sampler in
\* flight is cancelled by that very call: it does not run to completion, and its
\* cancellation does not wait for the expiry of the tick budget.
C12_StopCancelsSamplers ==
  [][ \A i \in Ids :
        (ctxDone /\ sampler[i] = "running") =>
           /\ sampler'[i] # "ok"
           /\ (sampler'[i] = "cancelled" => ~expired) ]_vars

\* C13 (as claimed): the derived cpu_percent is (cpuDelta/systemDelta)*cpu_count*100
\* when cpu_total - cpu_total_prev and system_total - system_total_prev are both
\* strictly positive, and 0 otherwise, in particular when a current counter is
\* below its previous value; it is never negative.
C13_CpuPercent ==
  (stats # NoValue) =>
     LET cpuDelta == statsJSON.cpuTotal - statsJSON.preCpuTotal
         systemDelta == statsJSON.systemUsage - statsJSON.preSystemUsage
     IN /\ stats.CPUPercent >= 0
        /\ stats.CPUPercent = IF cpuDelta > 0 /\ systemDelta > 0
                                THEN (cpuDelta * statsJSON.percpu * 100) \div systemDelta
                                ELSE 0

\* C14 (as claimed): mem_percent is 0 when mem_limit = 0 and mem_used/mem_limit*100
\* when mem_limit > 0; it is always a number.
C14_MemPercent ==
  (stats # NoValue) =>
     stats.MemoryPercent =
        IF statsJSON.limit > 0
          THEN [kind |-> "num", val |-> (statsJSON.usage * 100) \div statsJSON.limit]
          ELSE [kind |-> "num", val |-> 0]

\* the payloads of the frames, concatenated
RECURSIVE Payloads(_)
Payloads(fs) == IF fs = << >> THEN << >> ELSE Head(fs).payload \o Payloads(Tail(fs))

\* the payloads of the frames that have one, as a sequence of chunks
RECURSIVE Chunks(_)
Chunks(fs) ==
  IF fs = << >> THEN << >>
  ELSE IF Head(fs).payload = << >> THEN Chunks(Tail(fs))
  ELSE << Head(fs).payload >> \o Chunks(Tail(fs))

\* the chunks, concatenated
RECURSIVE Flatten(_)
Flatten(cs) == IF cs = << >> THEN << >> ELSE Head(cs) \o Flatten(Tail(cs))

\* the stream is the frames' bytes, whole
WellFormed == logStream = Mux(logFrames)

\* the stream ends between two frames
EndsBetweenFrames == \E k \in 0..Len(logFrames) : logStream = Mux(SubSeq(logFrames, 1, k))

\* the frames that lie whole within the first n bytes of the stream
FramesWithin(n) ==
  LET ks == { k \in 0..Len(logFrames) : Len(Mux(SubSeq(logFrames, 1, k))) <= n }
  IN SubSeq(logFrames, 1, CHOOSE k \in ks : \A j \in ks : j <= k)

\* C15: on a well-formed stream the writer receives the payloads of the consumed
\* frames and nothing else, in the daemon's order: every header is read at a frame
\* boundary (exactly payload_len bytes were consumed after the previous one), what
\* was written is the payloads of the frames consumed so far, no byte of a header
\* is written, and at the end of the stream the goroutine ends without error having
\* written the concatenation of all payloads.
C15_SinkIsPayloads ==
  WellFormed =>
     /\ (dpc \in {"select", "header"}) =>
           /\ \E k \in 0..Len(logFrames) : rpos = Len(Mux(SubSeq(logFrames, 1, k)))
           /\ sink = Chunks(FramesWithin(rpos))
     /\ Flatten(sink \o << buf >>) = Payloads(FramesWithin(rpos))
     /\ \A i \in 1..Len(sink) : \A j \in 1..Len(sink[i]) : sink[i][j] \in {65, 66}
     /\ (dpc = "done") =>
           /\ errChan = << >>
           /\ rpos = Len(logStream)
           /\ Flatten(sink) = Payloads(logFrames)
           /\ Len(Flatten(sink)) = Len(logStream) - 8 * Len(logFrames)

\* C15 witness: three frames of both kinds, two of them with payload, all delivered.
C15_Witness ==
  /\ WellFormed
  /\ dpc = "done"
  /\ Len(logFrames) = 3
  /\ sink = << << 66, 65 >>, << 65 >> >>

\* C16 (as claimed): the demultiplexing loop ends without error exactly when the
\* stream ends between two frames; a stream that ends inside a header, or after a
\* header that announces N > 0 and before all N payload bytes, ends with an error
\* (on errChan for StreamLogs, returned for GetLogs).
C16_IncompleteFrameIsError ==
  /\ (dpc = "done") => ((errChan = << >>) <=> EndsBetweenFrames)
  /\ (gpc = "returned") => ((gerr = "nil") <=> EndsBetweenFrames)

\* C17: a frame of payload length 0 causes no payload read and no write: the loop
\* is at its payload read only with a size above 0, no chunk written is empty, and
\* the frames that follow a zero-length frame are delivered as if it were absent
\* (by StreamLogs to the writer, by GetLogs into its result).
C17_ZeroLengthFrameSkipped ==
  /\ \A i \in 1..Len(sink) : sink[i] # << >>
  /\ dpc = "payload" => size > 0
  /\ dpc = "write" => buf # << >>
  /\ gpc = "payload" => gsize > 0
  /\ (WellFormed /\ gpc = "returned") => (gerr = "nil" /\ logResult = Payloads(logFrames))
  /\ (WellFormed /\ dpc = "done") =>
        /\ Len(sink) = Cardinality({ i \in 1..Len(logFrames) : logFrames[i].payload # << >> })
        /\ sink = Chunks(logFrames)

\* C17 witness: a zero-length frame between two frames with payload; both payloads
\* were written and nothing else.
C17_Witness ==
  /\ WellFormed
  /\ dpc = "done"
  /\ Len(logFrames) = 3
  /\ logFrames[2].payload = << >>
  /\ sink = << << 65 >>, << 66, 65 >> >>

\* a cause of termination of an open subscription has occurred: the client closed,
\* the context is cancelled, or the streaming goroutine is returning (daemon EOF,
\* read error or write error)
TerminationCause ==
  /\ dpc # "none"
  /\ clientGone \/ logCtxDone \/ dpc \in {"closeReader", "closeChan", "done"}

\* C18: the daemon stream handle and the socket are each closed at most once, the
\* handle only by the streaming goroutine as it returns and the socket only by the
\* handler as it returns; and once a cause of termination has occurred on an open
\* subscription, the handler returns and the goroutine ends with each of the two
\* closed exactly once.  A handler that ends before a stream was opened closes the
\* socket once.
C18_ClosedExactlyOnce ==
  /\ [](/\ readerCloses <= 1
        /\ connCloses <= 1
        /\ (readerCloses = 1) <=> (dpc \in {"closeChan", "done"})
        /\ (connCloses = 1) <=> (wpc = "returned" /\ connOpened))
  /\ TerminationCause ~>
        (wpc = "returned" /\ dpc = "done" /\ readerCloses = 1 /\ connCloses = 1)
  /\ (wpc \in {"deferCancel", "deferClose"}) ~> (wpc = "returned" /\ connCloses = 1)

\* C18 witness: a write error ended a subscription; everything is closed once.
C18_Witness ==
  /\ wpc = "returned"
  /\ dpc = "done"
  /\ ~clientGone
  /\ Len(sink) = 1
  /\ rpos < Len(logStream)
  /\ readerCloses = 1
  /\ connCloses = 1

\* C19: the reader task ends only by cancelling the delivery context, and once the
\* client has closed the socket of a subscription whose stream is open, the context
\* is cancelled, the streaming goroutine stops reading from the daemon and ends,
\* and the handler returns, also when the daemon keeps the stream open for ever.
C19_ClientCloseEndsStream ==
  /\ [](rdpc = "done" => logCtxDone)
  /\ [][(dpc \in {"closeReader", "closeChan", "done"}) => (rpos' = rpos)]_vars
  /\ (clientGone /\ dpc # "none") ~> logCtxDone
  /\ (clientGone /\ dpc # "none") ~> (dpc = "done" /\ wpc = "returned")

\* C19 witness: a followed stream whose daemon never ends it; the client closed, the
\* goroutine ended on the cancelled read with part of the stream unread.
C19_Witness ==
  /\ ~daemonEnds
  /\ clientGone
  /\ rdpc = "done"
  /\ dpc = "done"
  /\ wpc = "returned"
  /\ rpos = Len(logStream)
  /\ sink # << >>

\* C20: the goroutine reads from the daemon only while it holds no payload: at the
\* top of the loop and at both reads nothing is held, at the write exactly the
\* payload of the last header is held, and every payload byte consumed from the
\* daemon is either written or that one held payload.
C20_SynchronousForwarding ==
  /\ (dpc \in {"select", "header", "payload"}) => buf = << >>
  /\ (dpc = "write") => (Len(buf) = size /\ buf = SubSeq(logStream, rpos - size + 1, rpos))
  /\ (dpc \in {"select", "header", "payload", "write"}) =>
        Len(Payloads(FramesWithin(rpos))) = Len(Flatten(sink)) + Len(buf)

\* C20 witness: the second payload is held at the write while the first is written.
C20_Witness ==
  /\ dpc = "write"
  /\ buf = << 66, 65 >>
  /\ sink = << << 65 >> >>

\* the errors of a stream that breaks off inside a frame or whose write fails
StreamErrors ==
  { "failed to read log header: unexpected EOF", "failed to read log payload: unexpected EOF",
    "failed to write log data" }

\* the streaming goroutine has left its loop
Returning == dpc \in {"closeReader", "closeChan", "done"}

\* the stream ended abnormally and the handler has not taken notice yet: the
\* goroutine left its loop with a read or write error for the handler, or without
\* one at the end of a stream that breaks off inside a frame
AbnormalEnd ==
  /\ Returning
  /\ \/ errChan # << >> /\ Head(errChan) \in StreamErrors
     \/ errChan = << >> /\ daemonEnds /\ rpos = Len(logStream) /\ ~EndsBetweenFrames

\* the socket takes a text frame: open, the client there, no write failed on it
Writable == connCloses = 0 /\ ~clientGone /\ ~wsConn.writeErr

\* C21 (as claimed): once the stream has terminated abnormally nothing more is
\* read from the daemon or written as payload; when the handler stops waiting
\* after an abnormal end and the socket is still writable, the error message goes
\* out as a text frame; nothing is written after the error frame; and the handler
\* returns with the socket closed.
C21_AbnormalEndReported ==
  /\ [][Returning => (rpos' = rpos /\ sink' = sink /\ Returning')]_vars
  /\ [][(wpc = "await" /\ wpc' # "await" /\ AbnormalEnd /\ Writable)
           => (wsConn'.errorFrame \in StreamErrors)]_vars
  /\ [][(wsConn.errorFrame # "none")
           => (sink' = sink /\ wsConn'.errorFrame = wsConn.errorFrame)]_vars
  /\ AbnormalEnd ~> (wpc = "returned" /\ connCloses = 1)

\* the errors that are, or wrap, the context's cancellation error
CancelErrors ==
  { "context canceled", "failed to read log header: context canceled",
    "failed to read log payload: context canceled" }

\* the goroutine leaves its loop in this step
LeavesLoop == dpc \in {"select", "header", "payload", "write"} /\ Returning'

DigitValue(c) == CHOOSE d \in 0..9 : DigitChars[d + 1] = c

\* the number a sequence of digit characters writes
RECURSIVE Decimal(_)
Decimal(cs) ==
  IF cs = << >> THEN 0
  ELSE 10 * Decimal(SubSeq(cs, 1, Len(cs) - 1)) + DigitValue(cs[Len(cs)])

\* the display name: what inspect reports without its leading '/'
DisplayName(name) ==
  IF name # << >> /\ Head(name) = "/" THEN SubSeq(name, 2, Len(name)) ELSE name

\* C23: when the builder returns without error, the zip holds exactly one entry;
\* its name is the display name, '_', fifteen characters yyyyMMdd-HHmmss that write
\* the time of the call, and ".log"; its content is the payloads of the frames of
\* the stream, in order, without any header byte; and the zip.Writer was closed
\* once.  Whenever the builder has returned, a zip.Writer it made is closed.
C23_ArchiveHoldsLog ==
  /\ (arc.pc = "returned" /\ zipWriter.made) => zipWriter.closes = 1
  /\ ~zipWriter.made => zipWriter.closes = 0
  /\ Len(zipWriter.entries) <= 1
  /\ (arc.pc = "returned" /\ arc.err = "nil") =>
        /\ zipWriter.made
        /\ Len(zipWriter.entries) = 1
        /\ LET e == zipWriter.entries[1]
               n == Len(DisplayName(arc.containerName))
               stamp == SubSeq(e.name, n + 2, n + 16)
           IN /\ Len(e.name) = n + 20
              /\ SubSeq(e.name, 1, n) = DisplayName(arc.containerName)
              /\ e.name[n + 1] = "_"
              /\ SubSeq(e.name, n + 17, n + 20) = << ".", "l", "o", "g" >>
              /\ stamp[9] = "-"
              /\ << Decimal(SubSeq(stamp, 1, 4)), Decimal(SubSeq(stamp, 5, 6)),
                     Decimal(SubSeq(stamp, 7, 8)), Decimal(SubSeq(stamp, 10, 11)),
                     Decimal(SubSeq(stamp, 12, 13)), Decimal(SubSeq(stamp, 14, 15)) >> = arc.now
              /\ WellFormed => e.content = Payloads(logFrames)

\* C23 witness: the archive of a stream of three frames of a container "/web",
\* made on 2024-01-05 at 09:07:03
C23_Witness ==
  /\ arc.pc = "returned"
  /\ arc.err = "nil"
  /\ WellFormed
  /\ Len(logFrames) = 3
  /\ zipWriter.closes = 1
  /\ zipWriter.entries =
        << [ name |-> << "w", "e", "b", "_", "2", "0", "2", "4", "0", "1", "0", "5", "-",
                         "0", "9", "0", "7", "0", "3", ".", "l", "o", "g" >>,
             content |-> << 65, 66, 65 >> ] >>

\* C24 (as claimed): the options of the ContainerLogs call made for a download are
\* follow off and the tail and timestamps of the request.
C24_CallerOptionsReachDaemon ==
  \A i \in 1..Len(arc.logOpts) :
     /\ ~arc.logOpts[i].follow
     /\ arc.logOpts[i].tail = arc.query.tail
     /\ arc.logOpts[i].timestamps = arc.query.timestamps

\* the records of the current tick for container id
TickLogs(id) ==
  { i \in 1..Len(healthLogs) :
      healthLogs[i].CheckedAt = health.tick /\ healthLogs[i].ContainerID = id }

\* the containers of the current tick that checkContainer has returned for
Checked ==
  IF health.pc = "list" THEN << >>
  ELSE SubSeq(health.listed, 1, Len(health.listed) - Len(health.queue))

\* C25 (as claimed): a container never has two records in a tick, a container
\* that is being checked has none yet, and every container whose check has
\* returned has exactly one record for the tick, with status healthy or
\* resource_critical and no error message, or with status error and the error.
C25_OneRecordPerContainerPerTick ==
  /\ \A id \in Ids : Cardinality(TickLogs(id)) <= 1
  /\ \A k \in 1..Len(Checked) : Cardinality(TickLogs(Checked[k])) = 1
  /\ \A i \in 1..Len(healthLogs) :
        \/ healthLogs[i].Status \in {"healthy", "resource_critical"}
              /\ healthLogs[i].ErrorMessage = ""
        \/ healthLogs[i].Status = "error" /\ healthLogs[i].ErrorMessage # ""

\* the records of successfully sampled containers
SampledLogs == { i \in 1..Len(healthLogs) : healthLogs[i].Status # "error" }

\* mem% of a record is above thr, with mem% = usage / limit * 100 when limit > 0
\* and 0 otherwise
MemPercentAbove(r, thr) ==
  IF r.ResourceMemoryLimit > 0
    THEN r.ResourceMemory * 100 > thr * r.ResourceMemoryLimit
    ELSE 0 > thr

\* C26 (as claimed): the record of a successfully sampled container has status
\* resource_critical if and only if its cpu% is strictly above the cpu threshold
\* or its mem% is strictly above the memory threshold, and healthy otherwise,
\* whatever was recorded for the container in earlier ticks.
C26_StrictThresholds ==
  \A i \in SampledLogs :
     /\ healthLogs[i].Status \in {"healthy", "resource_critical"}
     /\ (healthLogs[i].Status = "resource_critical") <=>
           \/ healthLogs[i].ResourceCPU > health.cfg.CPUThreshold
           \/ MemPercentAbove(healthLogs[i], health.cfg.MemoryThreshold)

ZeroThresholds == health.cfg.CPUThreshold = 0 /\ health.cfg.MemoryThreshold = 0

\* C27 (as claimed): with both thresholds 0 every successfully sampled container
\* is recorded resource_critical, whatever its sample.
C27_ZeroThresholdsAllCritical ==
  ZeroThresholds => \A i \in SampledLogs : healthLogs[i].Status = "resource_critical"

\* C27 (amended): with both thresholds 0 a successfully sampled container is
\* recorded resource_critical exactly when its cpu% is above 0 or its memory usage
\* is above 0, whatever its memory limit; a sample with cpu% 0 and memory usage 0
\* is recorded healthy.
C27_ZeroThresholdsFlagAnyUse ==
  ZeroThresholds =>
    \A i \in SampledLogs :
       /\ healthLogs[i].Status \in {"healthy", "resource_critical"}
       /\ (healthLogs[i].Status = "resource_critical") <=>
             (healthLogs[i].ResourceCPU > 0 \/ healthLogs[i].ResourceMemory > 0)

\* C27 witness: thresholds 0; an idle container recorded healthy, then a container
\* without memory limit recorded resource_critical
C27_Witness ==
  /\ ZeroThresholds
  /\ Len(healthLogs) = 2
  /\ healthLogs[1].Status = "healthy"
  /\ healthLogs[1].ResourceCPU = 0
  /\ healthLogs[1].ResourceMemory = 0
  /\ healthLogs[2].Status = "resource_critical"
  /\ healthLogs[2].ResourceCPU = 0
  /\ healthLogs[2].ResourceMemoryLimit = 0

\* positions of the bulk request whose result has been recorded
Recorded == { j \in 1..Len(svc.bulk.results) : svc.bulk.results[j] # ZeroResult }

\* the response of a bulk request accounts for every position of container_ids
BulkResponseAccounts ==
  svc.bulk.pc = "done" =>
    /\ svc.bulk.response.total = Len(svc.bulk.ids)
    /\ svc.bulk.response.total = svc.bulk.response.success + svc.bulk.response.failed
    /\ Len(svc.bulk.results) = Len(svc.bulk.ids)
    /\ \A i \in 1..Len(svc.bulk.ids) :
          /\ svc.bulk.results[i].ContainerID = svc.bulk.ids[i]
          /\ svc.bulk.results[i].Success <=> svc.bulk.results[i].Error = ""
    /\ svc.bulk.response.success =
          Cardinality({ i \in 1..Len(svc.bulk.ids) : svc.bulk.results[i].Success })

\* a step that changes results records, at the current position, the id of that
\* position with the outcome of its operation and its error string, and moves
\* on to the next position whatever the outcome
BulkRecordsOutcome ==
  (svc.bulk.pc # "idle" /\ svc'.bulk.results # svc.bulk.results) =>
     LET i == svc.bulk.i
         err == svc.ops["bulk"].err
     IN /\ svc.ops["bulk"].pc = "returned"
        /\ svc'.bulk.results =
              [ svc.bulk.results EXCEPT
                  ![i] = [ ContainerID |-> svc.bulk.ids[i],
                           ContainerName |-> svc.bulk.result.ContainerName,
                           Success |-> (err = "nil"),
                           Error |-> IF err = "nil" THEN "" ELSE err ] ]
        /\ svc'.bulk.i = i + 1
        /\ svc'.bulk.pc = IF i < Len(svc.bulk.ids) THEN "inspect" ELSE "respond"

\* C28: the response of a bulk start, stop or remove has total = success + failed
\* = the number of ids given, results[i].container_id is the i-th id given for
\* every position i, a failed id is reported with its error string, and the ids
\* after it are processed all the same.
C28_BulkAccountsForEveryId == []BulkResponseAccounts /\ [][BulkRecordsOutcome]_vars

\* C28 witness: ids <<1, 2, 1>> with the second failing "conflict": total 3,
\* success 2, failed 1
C28_Witness ==
  /\ svc.bulk.pc = "done"
  /\ svc.bulk.ids = << 1, 2, 1 >>
  /\ svc.bulk.results[1].Success
  /\ ~svc.bulk.results[2].Success
  /\ svc.bulk.results[2].Error = Conflict
  /\ svc.bulk.results[3].Success
  /\ svc.bulk.response = [ total |-> 3, success |-> 2, failed |-> 1 ]

ReturnedOps ==
  (IF svc.ops["handler"].pc \in {"returned", "responded"} THEN 1 ELSE 0)
  + (IF svc.ops["bulk"].pc = "returned" THEN 1 ELSE 0)
  + Cardinality(Recorded)

\* the journal holds one record per operation that has returned, none for one
\* whose daemon call has not
OneRecordPerOperation == Len(actionLogs) = ReturnedOps

\* the journal only grows at its end, by the record of an operation whose daemon
\* call has returned: it carries the operation, the container, the outcome and
\* the daemon's error, and the operation returns that error unchanged
JournalAppends ==
  /\ Len(actionLogs') >= Len(actionLogs)
  /\ SubSeq(actionLogs', 1, Len(actionLogs)) = actionLogs
  /\ \A c \in Callers :
        (svc.ops[c].pc # "returned" /\ svc'.ops[c].pc = "returned") =>
           /\ svc.ops[c].pc = "log"
           /\ svc'.ops[c].err = svc.ops[c].err
           /\ actionLogs' =
                 Append(actionLogs,
                        [ ActionType |-> svc.ops[c].kind, ResourceType |-> "container",
                          ResourceID |-> svc.ops[c].id, ResourceName |-> svc.ops[c].name,
                          Success |-> (svc.ops[c].err = "nil"),
                          ErrorMessage |-> IF svc.ops[c].err = "nil" THEN ""
                                           ELSE svc.ops[c].err ])
  /\ actionLogs' # actionLogs =>
        \E c \in Callers : svc.ops[c].pc = "log" /\ svc'.ops[c].pc = "returned"

\* C30: every start, stop, restart and remove appends exactly one action record,
\* after its daemon call has returned, with the success flag of its outcome and
\* the daemon's error as error message; records are appended and never changed;
\* the operation returns the daemon's error itself.
C30_OneJournalRecordPerOperation == []OneRecordPerOperation /\ [][JournalAppends]_vars

\* C30 witness: a restart that failed "conflict" has answered 500 and two
\* operations of a bulk stop, one failed at inspect, are journalled with it
C30_Witness ==
  /\ Len(actionLogs) = 3
  /\ svc.ops["handler"].pc = "responded"
  /\ svc.ops["handler"].kind = "restart"
  /\ svc.ops["handler"].status = 500
  /\ \E i \in 1..3 : actionLogs[i] = [ ActionType |-> "restart", ResourceType |-> "container",
                                        ResourceID |-> 1, ResourceName |-> "/c",
                                        Success |-> FALSE, ErrorMessage |-> Conflict ]
  /\ \E i \in 1..3 : actionLogs[i] = [ ActionType |-> "stop", ResourceType |-> "container",
                                        ResourceID |-> 2, ResourceName |-> "",
                                        Success |-> FALSE, ErrorMessage |-> NoSuchContainer ]
  /\ \E i \in 1..3 : actionLogs[i].ActionType = "stop" /\ actionLogs[i].Success

\* a getter is at work in this step
ReaderStep == hpc' # hpc \/ hVal' # hVal

\* C31: a summary read returns the value an earlier summary read returned when no
\* swap lies between the two, and no step of a reader (of the map, of one entry,
\* of the summary) changes the stored map or the stored summary.
C31_SummaryReadsAgree ==
  /\ []((hpc = "copied" /\ hop = "summary" /\ kept.summary.kind = "summary"
              /\ kept.summaryRef.gen = hGen) => hVal.v = kept.summary.v)
  /\ [][ReaderStep => UNCHANGED << containerStats, dashboardSummary, mapGen, sumGen >>]_vars

\* C31 witness: the second summary read after the first swap returns the summary
\* of one container that the first returned, while the second refresh has
\* collected a different one and not published it
C31_Witness ==
  /\ hpc = "copied"
  /\ hop = "summary"
  /\ kept.summary.kind = "summary"
  /\ kept.summaryRef.gen = 1
  /\ hGen = 1
  /\ hVal.v = kept.summary.v
  /\ hVal.v.ContainerCount = 1
  /\ tick = 2
  /\ pc = "lock"
  /\ summary # dashboardSummary

\* a refresh begins in this step
RefreshBegins == tick' # tick

\* C32: the first refresh begins at the start of the loop, before the ticker
\* exists and without any tick; every later refresh begins at the loop's select,
\* on a tick of the ticker (one waiting in its channel, or the next to arrive
\* while the loop blocks on a live context), and consumes it.
C32_RefreshAtStartThenOnTicks ==
  /\ [](tick = 0 <=> pc = "start")
  /\ [](tick = 0 => ~tickPending)
  /\ [][RefreshBegins =>
          /\ tick' = tick + 1
          /\ pc' = "list"
          /\ \/ tick = 0 /\ pc = "start"
             \/ /\ tick >= 1
                /\ pc = "wait"
                /\ tickPending \/ ~ctxDone
                /\ ~tickPending']_vars

\* C32 witness: the second refresh has begun on a tick that waited in the
\* ticker's channel while the first refresh published
C32_Witness ==
  /\ tick = 2
  /\ pc = "list"
  /\ swaps = 1
  /\ ~tickPending
  /\ ctxDone

\* the stream kind a frame header names in its first byte
StreamKind(h0) == IF h0 = 1 THEN "stdout" ELSE "stderr"

\* the (stream kind, payload) events of the frames that have a payload
RECURSIVE Events(_)
Events(fs) ==
  IF fs = << >> THEN << >>
  ELSE IF Head(fs).payload = << >> THEN Events(Tail(fs))
  ELSE << [ kind |-> StreamKind(Head(fs).kind), payload |-> Head(fs).payload ] >>
         \o Events(Tail(fs))

\* C33 (as claimed): what the goroutine of StreamLogs has handed to the writer
\* when a well-formed stream has ended carries, for every frame with a payload,
\* the frame's stream kind with the payload: every stream that leads to the same
\* writes has the same (stream kind, payload) events.
C33_EventsCarryStreamKind ==
  (WellFormed /\ dpc = "done") =>
     \A gs \in FrameSeqs : Chunks(gs) = sink => Events(gs) = Events(logFrames)

\* strings.ToLower on the op names that occur
ToLower(op) ==
  CASE op \in {"READ", "Read", "read"} -> "read"
    [] op \in {"WRITE", "Write", "write"} -> "write"
    [] OTHER -> "sync"

\* the sum of the values of the entries whose op is, in lower case, the given one
RECURSIVE SumFolded(_, _)
SumFolded(entries, op) ==
  IF entries = << >> THEN 0
  ELSE UAdd(IF ToLower(Head(entries).op) = op THEN Head(entries).value ELSE 0,
            SumFolded(Tail(entries), op))

\* C34 (as claimed): the ContainerStats of a sample has as block-io totals the
\* sums of the entries whose op is "read" (or "write") in any spelling of upper
\* and lower case, and as network totals the sums over all interfaces.
C34_BlockIoCaseInsensitive ==
  stats # NoValue =>
     /\ stats.BlockRead = SumFolded(statsJSON.blkio, "read")
     /\ stats.BlockWrite = SumFolded(statsJSON.blkio, "write")
     /\ stats.NetworkRx = SumRx(statsJSON.networks)
     /\ stats.NetworkTx = SumTx(statsJSON.networks)

\* the refresher is at the swap: about to lock, or between Lock and Unlock
AtSwap == pc \in {"lock", "assignMap", "assignSummary", "unlock"}

\* the stored snapshot is written in this step
SnapshotWritten ==
  \/ containerStats' # containerStats
  \/ dashboardSummary' # dashboardSummary
  \/ mapGen' # mapGen
  \/ sumGen' # sumGen

\* C35: sampler tasks run only while the refresher collects, and at the swap all
\* have joined, the channel is closed and drained; the channel never holds more
\* results than its capacity len(containers), so no send waits, and every sampler
\* that runs ends; the snapshot is written only by the refresher under the write
\* lock, in its two assignments of one tick, and a refresh begins only when none
\* is in progress.
C35_JoinBeforeSwapSingleWriter ==
  /\ []((\E i \in Ids : sampler[i] = "running") => pc = "collect" /\ ~chanClosed)
  /\ [](AtSwap => /\ \A i \in Ids : sampler[i] # "running"
                  /\ statsChan = << >>
                  /\ containers # {} => chanClosed)
  /\ [](Len(statsChan) <= Cardinality(containers))
  /\ [][SnapshotWritten => /\ mu.writer
                           /\ pc \in {"assignMap", "assignSummary"}
                           /\ tick' = tick]_vars
  /\ [][tick' # tick => /\ pc \in {"start", "wait"}
                        /\ ~mu.writer
                        /\ \A i \in Ids : sampler[i] # "running"]_vars
  /\ \A i \in Ids : (sampler[i] = "running") ~> (sampler[i] # "running")

\* C35 witness: two samplers have joined, one of them cancelled at the expiry of
\* the budget, and the refresher of the second tick holds the lock between its
\* two assignments
C35_Witness ==
  /\ tick = 2
  /\ pc = "assignSummary"
  /\ mu.writer
  /\ chanClosed
  /\ \E i, j \in Ids : sampler[i] = "ok" /\ sampler[j] = "cancelled"
  /\ mapGen = 2
  /\ sumGen = 1

\* the caller writes to an object it holds
CallerWrites == hpc = "idle" /\ hpc' = "idle" /\ kept' # kept

\* C36: a write of the caller to the map or the summary a getter returned leaves
\* the stored map and summary as they are; a step that writes the stored snapshot
\* leaves what the caller holds as it is; and the stored snapshot is, after every
\* publication, what the refresher of that tick built, whatever the caller wrote.
C36_ReturnedCopiesAreDetached ==
  /\ [][CallerWrites => UNCHANGED << containerStats, dashboardSummary, mapGen, sumGen >>]_vars
  /\ [][SnapshotWritten => kept' = kept]_vars
  /\ []((mapGen = tick /\ tick > 0) => containerStats = newStats)
  /\ []((sumGen = tick /\ tick > 0) => dashboardSummary = summary)

\* C36 witness: the caller holds the map and the summary of the first publication,
\* has deleted the map's entry and written to the summary's count, and now, after
\* no further publication, reads the summary again: it has the count of one.
C36_Witness ==
  /\ swaps = 1
  /\ kept.statsRef = [ owner |-> "caller", gen |-> 1 ]
  /\ kept.summaryRef = [ owner |-> "caller", gen |-> 1 ]
  /\ DOMAIN containerStats # {}
  /\ kept.stats.v = EmptyMap
  /\ kept.summary.v.ContainerCount = Scribble
  /\ hpc = "copied"
  /\ hop = "summary"
  /\ hVal.v.ContainerCount = 1

\* C37: a refresh whose list call fails ends there: from the start of the tick to
\* the failure no step writes the stored map or summary, the failing step leaves
\* them, the publication count and the lock as they are and takes the loop back to
\* its select; after it nothing of that tick is published, and the loop can take
\* the next tick.
C37_ListFailurePublishesNothing ==
  /\ [][(pc \in {"start", "wait", "list"}) =>
            (UNCHANGED << containerStats, dashboardSummary, mapGen, sumGen, swaps >>)]_vars
  /\ [][(pc = "list" /\ listResult' = "error") => (pc' = "wait" /\ UNCHANGED mu)]_vars
  /\ [](listResult = "error" =>
          /\ pc = "wait"
          /\ ~mu.writer
          /\ mapGen < tick /\ sumGen < tick /\ swaps < tick
          /\ tick < MaxTicks => ENABLED LoopTick)

\* C37 witness: the first tick published container 1, the list call of the second
\* failed, and the snapshot of the first tick is still the stored one
C37_Witness ==
  /\ tick = 2
  /\ pc = "wait"
  /\ listResult = "error"
  /\ swaps = 1
  /\ mapGen = 1
  /\ sumGen = 1
  /\ DOMAIN containerStats = {1}
  /\ dashboardSummary.ContainerCount = 1

\* the handler writes to the socket in this step: the welcome, the error of a
\* failed open, the error received from errChan, or anything else that leaves a
\* mark on the connection
HandlerWrites ==
  /\ wpc' # wpc
  /\ \/ wsConn' # wsConn
     \/ wpc = "welcome"
     \/ wpc = "open" /\ wpc' = "deferCancel"
     \/ wpc = "await" /\ errChan # << >> /\ errChan' # errChan
           /\ Head(errChan) # "context canceled"

\* the streaming goroutine ends a writer.Write in this step
StreamWrites == dpc = "write" /\ dpc' # "write"

\* the goroutine does not exist, or has returned from its loop
PastLastWrite == dpc \in {"none", "closeReader", "closeChan", "done"}

\* C38: the goroutine of StreamLogs exists only after the handler's welcome and
\* only when the open succeeded; the handler writes to the socket only while the
\* goroutine does not exist or has left its loop, and the goroutine writes only
\* while the handler waits in its select or has left it without writing.
C38_OneSocketWriterAtATime ==
  /\ [](~PastLastWrite => wpc \in {"await", "deferCancel", "deferClose", "returned"})
  /\ [][HandlerWrites => PastLastWrite]_vars
  /\ [][StreamWrites => /\ wpc \in {"await", "deferCancel", "deferClose", "returned"}
                        /\ wpc' = wpc
                        /\ wsConn.errorFrame = "none"]_vars

\* C38 witness: the goroutine delivered a payload, then the stream broke off inside
\* a frame; the goroutine has returned and closed its channel, and the handler
\* has written the error it received to the socket
C38_Witness ==
  /\ sink = << << 65 >> >>
  /\ dpc = "done"
  /\ errChanClosed
  /\ wpc = "deferCancel"
  /\ wsConn.errorFrame = "failed to read log payload: unexpected EOF"

\* the record of the operation's failed inspect is among those handed to the journal
InspectFailureRecorded(o) ==
  \E k \in 1..Len(actionLogs) :
     actionLogs[k] = [ ActionType |-> o.kind, ResourceType |-> "container",
                       ResourceID |-> o.id, ResourceName |-> "", Success |-> FALSE,
                       ErrorMessage |-> NoSuchContainer ]

\* C39: logAction returns the error it was given, whether or not the journal
\* stored the record, so an operation returns nil, the inspect's error or the
\* mutating call's error and never the journal's; the mutating call is made only
\* after a successful inspect, and an operation whose inspect failed has handed
\* the journal a failed record with an empty resource name.
C39_JournalFailureIsSilent ==
  /\ [](\A c \in Callers :
          LET o == svc.ops[c]
          IN /\ o.pc = "daemon" => (o.name # "" /\ o.err = "nil")
             /\ o.pc \in {"returned", "responded"} =>
                   /\ o.err \in {"nil", NoSuchContainer, Conflict}
                   /\ o.success <=> o.err = "nil"
                   /\ o.err = NoSuchContainer => (o.name = "" /\ InspectFailureRecorded(o))
                   /\ o.err = Conflict => o.name # ""
             /\ o.pc = "responded" => o.status = IF o.success THEN 200 ELSE 500)
  /\ [][\A c \in Callers :
          /\ (svc.ops[c].pc = "log" /\ svc'.ops[c].pc = "returned") =>
                /\ svc'.ops[c].err = svc.ops[c].err
                /\ svc'.ops[c].success = svc.ops[c].success
                /\ Len(actionLogs') = Len(actionLogs) + 1
          /\ (svc.ops[c].pc = "inspect" /\ svc'.ops[c].err # "nil") =>
                svc'.ops[c].pc = "log"]_vars

\* C39 witness: the restart of the handler succeeded and has returned nil although
\* the journal did not store its record, and an operation of the bulk request,
\* whose inspect failed, has returned the inspect's error although the journal
\* did not store its record either
C39_Witness ==
  /\ svc.ops["handler"].pc = "returned"
  /\ svc.ops["handler"].logErr
  /\ svc.ops["handler"].err = "nil"
  /\ svc.ops["handler"].success
  /\ svc.ops["bulk"].pc = "returned"
  /\ svc.ops["bulk"].logErr
  /\ svc.ops["bulk"].err = NoSuchContainer
  /\ svc.ops["bulk"].name = ""
  /\ Len(actionLogs) = 2

\* CreateLogArchive failed at the inspect or in GetLogs
FailedBeforeZip == arc.err \in {"failed to inspect container", "failed to get logs"}

\* C40: when CreateLogArchive fails at the inspect, at the opening or in the
\* reading of the log stream, it has returned that error and no zip.Writer was
\* made, so no entry header, no content and no directory was written to the output
\* writer; the zip.Writer is made, and written through, only after GetLogs has
\* returned without error.
C40_FailureBeforeZipWritesNothing ==
  /\ [](FailedBeforeZip => (arc.pc = "returned" /\ zipWriter = NoZip))
  /\ [](gerr \notin {"none", "nil"} => zipWriter = NoZip)
  /\ [](zipWriter # NoZip => (gpc = "returned" /\ gerr = "nil"))
  /\ [][zipWriter' # zipWriter =>
          (arc.pc \in {"getLogs", "create", "write", "close"} /\ gerr = "nil")]_vars

\* C40 witness: the log stream broke off inside the payload of its third frame,
\* after two payloads were read; the builder has returned the error and the
\* output writer has received nothing
C40_Witness ==
  /\ arc.pc = "returned"
  /\ arc.err = "failed to get logs"
  /\ gerr = "failed to read log payload: unexpected EOF"
  /\ Len(logFrames) = 3
  /\ gpos > 16
  /\ zipWriter = NoZip
====
